---- MODULE Spec2Model ----
(***************************************************************************)
(* A model of ramjam's workflow runner (pkg/runner/runner.go): RunPaths    *)
(* starts one goroutine per workflow file, each runs runFile (the step     *)
(* loop around resolveBodyFile and executeStep) against its own variable   *)
(* store, sends one result on a buffered channel, and the caller ranges    *)
(* over the channel printing log lines and collecting errors.              *)
(*                                                                         *)
(* Go strings are TLA+ strings, read character by character with SubSeq.   *)
(* JSON values and YAML scalars are tagged records [t, v].  Go errors are  *)
(* records [fmt, vals]: the format string of the fmt.Errorf call and its   *)
(* arguments.                                                              *)
(*                                                                         *)
(* A Go local that is read several times is the parameter of a LET         *)
(* operator applied once to the expression the code assigns to it.         *)
(***************************************************************************)
EXTENDS Integers, Sequences, FiniteSets, TLC

(***************************************************************************)
(* package strings / strconv                                               *)
(***************************************************************************)
\* s[i-1:j] with both ends clamped to the string.
Slice(s, i, j) ==
    IF i > j \/ i > Len(s) \/ j < 1 THEN ""
    ELSE SubSeq(s, IF i < 1 THEN 1 ELSE i, IF j > Len(s) THEN Len(s) ELSE j)

\* The character at position i, "" outside the string.
Ch(s, i) == IF i < 1 \/ i > Len(s) THEN "" ELSE SubSeq(s, i, i)

HasPrefix(s, p) == Len(s) >= Len(p) /\ SubSeq(s, 1, Len(p)) = p

HasSuffix(s, p) == Len(s) >= Len(p) /\ SubSeq(s, Len(s) - Len(p) + 1, Len(s)) = p

TrimPrefix(s, p) ==
    IF Len(s) >= Len(p) /\ SubSeq(s, 1, Len(p)) = p THEN SubSeq(s, Len(p) + 1, Len(s)) ELSE s

TrimSuffix(s, p) ==
    IF Len(s) >= Len(p) /\ SubSeq(s, Len(s) - Len(p) + 1, Len(s)) = p
    THEN SubSeq(s, 1, Len(s) - Len(p)) ELSE s

\* strings.Index: the 0-based offset of the first occurrence of sub, -1 if none.
StringsIndex(s, sub) ==
    LET First(hits) == IF hits = {} THEN -1 ELSE (CHOOSE i \in hits : \A j \in hits : i <= j) - 1
    IN  First({i \in 1..(Len(s) - Len(sub) + 1) : SubSeq(s, i, i + Len(sub) - 1) = sub})

Contains(s, sub) == \E i \in 1..(Len(s) - Len(sub) + 1) : SubSeq(s, i, i + Len(sub) - 1) = sub

\* c is one of the characters of chars.
OneOf(c, chars) == Len(c) = 1 /\ \E i \in 1..Len(chars) : SubSeq(chars, i, i) = c

IsSpace(c) == c \in {" ", "\t", "\n", "\r"}

RECURSIVE TrimLeft(_)
TrimLeft(s) == IF Len(s) > 0 /\ IsSpace(SubSeq(s, 1, 1)) THEN TrimLeft(SubSeq(s, 2, Len(s))) ELSE s

RECURSIVE TrimRight(_)
TrimRight(s) ==
    IF Len(s) > 0 /\ IsSpace(SubSeq(s, Len(s), Len(s))) THEN TrimRight(SubSeq(s, 1, Len(s) - 1))
    ELSE s

TrimSpace(s) == TrimRight(TrimLeft(s))

\* strings.Split(s, sep) for a one-character sep: always at least one piece.
RECURSIVE Split(_, _)
Split(s, sep) ==
    LET At(i) == IF i < 0 THEN <<s>>
                 ELSE <<SubSeq(s, 1, i)>> \o Split(SubSeq(s, i + 2, Len(s)), sep)
    IN  At(StringsIndex(s, sep))

\* strings.SplitN(s, sep, 2) for a one-character sep.
SplitN2(s, sep) ==
    LET At(i) == IF i < 0 THEN <<s>> ELSE <<SubSeq(s, 1, i), SubSeq(s, i + 2, Len(s))>>
    IN  At(StringsIndex(s, sep))

Digits == "0123456789"

IsDigit(c) == OneOf(c, Digits)

AllDigits(s) == Len(s) > 0 /\ \A i \in 1..Len(s) : IsDigit(SubSeq(s, i, i))

RECURSIVE DigitsValue(_)
DigitsValue(s) ==
    IF Len(s) = 0 THEN 0
    ELSE 10 * DigitsValue(SubSeq(s, 1, Len(s) - 1)) + StringsIndex(Digits, SubSeq(s, Len(s), Len(s)))

\* strconv.Atoi: an optional sign and decimal digits; anything else is an error.
AtoiOk(s) ==
    AllDigits(IF Len(s) > 0 /\ SubSeq(s, 1, 1) \in {"+", "-"} THEN SubSeq(s, 2, Len(s)) ELSE s)

Atoi(s) ==
    IF Ch(s, 1) = "-" THEN 0 - DigitsValue(SubSeq(s, 2, Len(s)))
    ELSE DigitsValue(IF Ch(s, 1) = "+" THEN SubSeq(s, 2, Len(s)) ELSE s)

\* The decimal text of an integer (fmt's %d, and %v of the whole floats the
\* model uses: fmt prints a float64 below 1e21 with at most 6 digits so).
RECURSIVE FormatNat(_)
FormatNat(n) ==
    IF n < 10 THEN SubSeq(Digits, n + 1, n + 1)
    ELSE FormatNat(n \div 10) \o SubSeq(Digits, (n % 10) + 1, (n % 10) + 1)

FormatInt(n) == IF n < 0 THEN "-" \o FormatNat(0 - n) ELSE FormatNat(n)

(***************************************************************************)
(* applyVars: varPattern = \$\{([^}]+)\} replaced left to right, each      *)
(* match by the store's value for its key, or by itself when the key is    *)
(* not in the store.  Replaced text is not scanned again.                  *)
(***************************************************************************)
\* The end of varPattern's match starting at offset i of s, 0 when there is none.
VarMatchEnd(s, i) ==
    IF /\ i + 3 <= Len(s)
       /\ SubSeq(s, i, i + 1) = "${"
       /\ SubSeq(s, i + 2, i + 2) # "}"
       /\ \E j \in (i + 3)..Len(s) : SubSeq(s, j, j) = "}"
    THEN CHOOSE j \in (i + 3)..Len(s) :
            SubSeq(s, j, j) = "}" /\ \A k \in (i + 3)..(j - 1) : SubSeq(s, k, k) # "}"
    ELSE 0

\* Faulty: a placeholder whose key is not in the store is erased.
ReplaceOrErase(m, vars) ==
    LET Lookup(key) == IF key \in DOMAIN vars THEN vars[key] ELSE ""
    IN  Lookup(TrimSuffix(TrimPrefix(m, "${"), "}"))

\* Faulty: a value that is itself a placeholder is looked up once more.
ReplaceNested(m, vars) ==
    LET Again(key) == IF key \in DOMAIN vars THEN vars[key] ELSE "${" \o key \o "}"
        Lookup(key) ==
            IF key \in DOMAIN vars
            THEN (IF HasPrefix(vars[key], "${") /\ HasSuffix(vars[key], "}")
                  THEN Again(TrimSuffix(TrimPrefix(vars[key], "${"), "}"))
                  ELSE vars[key])
            ELSE m
    IN  Lookup(TrimSuffix(TrimPrefix(m, "${"), "}"))

\* The func literal applyVars hands to ReplaceAllStringFunc.
ReplaceMatch(m, vars) ==
    LET Lookup(key) == IF key \in DOMAIN vars THEN vars[key] ELSE m
    IN  Lookup(TrimSuffix(TrimPrefix(m, "${"), "}"))

RECURSIVE ApplyVarsFrom(_, _, _)
ApplyVarsFrom(s, i, vars) ==
    LET At(j) == IF j > 0 THEN ReplaceMatch(SubSeq(s, i, j), vars) \o ApplyVarsFrom(s, j + 1, vars)
                 ELSE SubSeq(s, i, i) \o ApplyVarsFrom(s, i + 1, vars)
    IN  IF i > Len(s) THEN "" ELSE At(VarMatchEnd(s, i))

applyVars(input, vars) == ApplyVarsFrom(input, 1, vars)

(***************************************************************************)
(* Values of type interface{}: decoded JSON and YAML.                      *)
(***************************************************************************)
JNil == [t |-> "nil", v |-> 0]
JStr(s) == [t |-> "string", v |-> s]
JNum(n) == [t |-> "number", v |-> n]
JBool(b) == [t |-> "bool", v |-> b]
JArr(seq) == [t |-> "array", v |-> seq]
JObj(f) == [t |-> "object", v |-> f]

\* A one-entry and a two-entry map.
Map1(k, x) == [n \in {k} |-> x]
Map2(k1, x1, k2, x2) == [n \in {k1, k2} |-> IF n = k1 THEN x1 ELSE x2]

\* Go's string order (bytewise) over the printable characters the model's keys
\* use, for the map keys fmt prints in sorted order.
Alphabet == " !#$%&'()*+,-./0123456789:;<=>?@ABCDEFGHIJKLMNOPQRSTUVWXYZ[]^_abcdefghijklmnopqrstuvwxyz{|}~"

RECURSIVE StrLess(_, _)
StrLess(a, b) ==
    IF Len(b) = 0 THEN FALSE
    ELSE IF Len(a) = 0 THEN TRUE
    ELSE IF SubSeq(a, 1, 1) = SubSeq(b, 1, 1) THEN StrLess(SubSeq(a, 2, Len(a)), SubSeq(b, 2, Len(b)))
    ELSE StringsIndex(Alphabet, SubSeq(a, 1, 1)) < StringsIndex(Alphabet, SubSeq(b, 1, 1))

RECURSIVE SortedKeys(_)
SortedKeys(ks) ==
    LET From(k) == <<k>> \o SortedKeys(ks \ {k})
    IN  IF ks = {} THEN <<>> ELSE From(CHOOSE x \in ks : \A y \in ks \ {x} : StrLess(x, y))

\* fmt.Sprint of an interface{} value (the %v verb).
RECURSIVE Sprint(_)
RECURSIVE SprintSeq(_)
RECURSIVE SprintMap(_, _)
SprintSeq(seq) ==
    IF Len(seq) = 0 THEN ""
    ELSE Sprint(seq[1]) \o (IF Len(seq) = 1 THEN "" ELSE " " \o SprintSeq(Tail(seq)))

SprintMap(f, keys) ==
    IF Len(keys) = 0 THEN ""
    ELSE keys[1] \o ":" \o Sprint(f[keys[1]])
            \o (IF Len(keys) = 1 THEN "" ELSE " " \o SprintMap(f, Tail(keys)))

Sprint(x) ==
    CASE x.t = "string" -> x.v
      [] x.t = "number" -> FormatInt(x.v)
      [] x.t = "bool"   -> IF x.v THEN "true" ELSE "false"
      [] x.t = "nil"    -> "<nil>"
      [] x.t = "array"  -> "[" \o SprintSeq(x.v) \o "]"
      [] x.t = "object" -> "map[" \o SprintMap(x.v, SortedKeys(DOMAIN x.v)) \o "]"

(***************************************************************************)
(* Go errors.  NoErr is nil.                                               *)
(***************************************************************************)
NoErr == [fmt |-> "", vals |-> <<>>]

\* fmt.Errorf(format, args...)
Errorf(format, args) == [fmt |-> format, vals |-> args]

\* pkg/errors Wrap and Wrapf: nil stays nil, otherwise "<msg>: %w".
Wrap(err, msg) == IF err = NoErr THEN NoErr ELSE [fmt |-> "%s: %w", vals |-> <<msg, err>>]

\* err.Error() of an error made by fmt.Errorf: the format with its verbs
\* filled in from the arguments, %d by the decimal number, %s by the string,
\* %q by the quoted string, %w by the message of the wrapped error.
\* The %q verb: a string is quoted; a value of another type has no %q form
\* and is printed as %!q(type=value), nil as %!q(<nil>); the verb is applied to
\* the elements of a slice and to the keys and values of a map.
\* The dynamic type of an argument of a fmt call is string: the strings of
\* the model are strings, its interface{} values are records.
IsGoString(x) == SubSeq(ToString(x), 1, 1) = "\""

RECURSIVE Quoted(_)
RECURSIVE QuotedSeq(_)
RECURSIVE QuotedMap(_, _)
QuotedSeq(seq) ==
    IF Len(seq) = 0 THEN ""
    ELSE Quoted(seq[1]) \o (IF Len(seq) = 1 THEN "" ELSE " " \o QuotedSeq(Tail(seq)))

QuotedMap(f, keys) ==
    IF Len(keys) = 0 THEN ""
    ELSE "\"" \o keys[1] \o "\":" \o Quoted(f[keys[1]])
            \o (IF Len(keys) = 1 THEN "" ELSE " " \o QuotedMap(f, Tail(keys)))

Quoted(x) ==
    IF IsGoString(x) THEN "\"" \o x \o "\""
    ELSE CASE x.t = "string" -> "\"" \o x.v \o "\""
           [] x.t = "number" -> "%!q(float64=" \o FormatInt(x.v) \o ")"
           [] x.t = "bool"   -> "%!q(bool=" \o (IF x.v THEN "true" ELSE "false") \o ")"
           [] x.t = "nil"    -> "%!q(<nil>)"
           [] x.t = "array"  -> "[" \o QuotedSeq(x.v) \o "]"
           [] x.t = "object" -> "map[" \o QuotedMap(x.v, SortedKeys(DOMAIN x.v)) \o "]"

RECURSIVE ErrorString(_)
RECURSIVE Sprintf(_, _)
Sprintf(format, args) ==
    LET Verb(v, x) ==
            CASE v = "d" -> FormatInt(x)
              [] v = "q" -> Quoted(x)
              [] v = "w" -> ErrorString(x)
              [] OTHER -> x
        Filled(i) ==
            IF i < 0 THEN format
            ELSE SubSeq(format, 1, i) \o Verb(SubSeq(format, i + 2, i + 2), Head(args))
                    \o Sprintf(SubSeq(format, i + 3, Len(format)), Tail(args))
    IN  Filled(StringsIndex(format, "%"))

ErrorString(err) == Sprintf(err.fmt, err.vals)

\* A (value, error) pair returned by a Go function.
Ret(val, err) == [err |-> err, val |-> val]

(***************************************************************************)
(* evalJSONPath                                                            *)
(***************************************************************************)
\* Faulty: a key the map lacks reads as the empty string.
MapGetEmpty(m, k) == IF k \in DOMAIN m THEN m[k] ELSE JStr("")

\* m[k] of a map[string]interface{}: nil when the key is absent.
MapGet(m, k) == IF k \in DOMAIN m THEN m[k] ELSE JNil

IsQuote(c) == c \in {"'", "\""}

FieldChars == "ABCDEFGHIJKLMNOPQRSTUVWXYZabcdefghijklmnopqrstuvwxyz0123456789_-"

IsFieldChar(c) == OneOf(c, FieldChars)

\* The end of the longest run of characters satisfying Class (an operator)
\* that starts at offset i >= 1 of s; i - 1 when the run is empty.
RunEnd(s, i, Class(_)) ==
    LET Last(ends) == IF ends = {} THEN i - 1 ELSE CHOOSE e \in ends : \A f \in ends : f <= e
    IN  Last({e \in i..Len(s) : \A k \in i..e : Class(SubSeq(s, k, k))})

NotQuote(c) == ~IsQuote(c)

\* What follows the value of a filter: ['"]?\)\](?:\.(.*))?$ read from offset r.
\* The result is the offset where the trailing path starts (Len(s) + 1 when the path
\* is absent or empty), or 0 when the text does not match.
FilterTail(s, r) ==
    LET After(q) ==
            IF Slice(s, q, q + 1) # ")]" THEN 0
            ELSE IF q + 1 = Len(s) THEN Len(s) + 1
            ELSE IF Ch(s, q + 2) = "." /\ ~Contains(Slice(s, q + 3, Len(s)), "\n") THEN q + 3
            ELSE 0
    IN  After(IF IsQuote(Ch(s, r)) THEN r + 1 ELSE r)

\* ^\$\[\?\(@\.([A-Za-z0-9_\-]+)==['"]?([^'"]+)['"]?\)\](?:\.(.*))?$
\* The submatches [ok, field, val, rest]; the value is greedy, so the longest
\* value after which the rest of the pattern matches is the one taken.
FilterMatch(p) ==
    LET no == [ok |-> FALSE, field |-> "", val |-> "", rest |-> ""]
        Submatches(fe, vs, e) ==
            [ok |-> TRUE, field |-> SubSeq(p, 7, fe), val |-> SubSeq(p, vs, e),
             rest |-> Slice(p, FilterTail(p, e + 1), Len(p))]
        ValueEnd(fe, vs, ends) ==
            IF ends = {} THEN no
            ELSE Submatches(fe, vs, CHOOSE x \in ends : \A y \in ends : y <= x)
        Value(fe, vs) ==
            ValueEnd(fe, vs, {e \in vs..RunEnd(p, vs, NotQuote) : FilterTail(p, e + 1) > 0})
        Field(fe) ==
            IF fe < 7 \/ Slice(p, fe + 1, fe + 2) # "==" THEN no
            ELSE Value(fe, IF IsQuote(Ch(p, fe + 3)) THEN fe + 4 ELSE fe + 3)
    IN  IF ~HasPrefix(p, "$[?(@.") THEN no ELSE Field(RunEnd(p, 7, IsFieldChar))

\* ^\$\[([0-9]+)\](?:\.(.*))?$   The submatches [ok, idx, rest].
IndexMatch(p) ==
    LET no == [ok |-> FALSE, idx |-> "", rest |-> ""]
        Index(de) ==
            IF de < 3 \/ Ch(p, de + 1) # "]" THEN no
            ELSE IF de + 1 = Len(p) THEN [ok |-> TRUE, idx |-> SubSeq(p, 3, de), rest |-> ""]
            ELSE IF Ch(p, de + 2) = "." /\ ~Contains(Slice(p, de + 3, Len(p)), "\n")
                 THEN [ok |-> TRUE, idx |-> SubSeq(p, 3, de), rest |-> Slice(p, de + 3, Len(p))]
            ELSE no
    IN  IF ~HasPrefix(p, "$[") THEN no ELSE Index(RunEnd(p, 3, IsDigit))

\* Faulty: the loop over the elements stops at the first match.
RECURSIVE FilterFirstElement(_, _, _)
FilterFirstElement(arr, field, val) ==
    IF Len(arr) = 0 THEN <<>>
    ELSE IF Head(arr).t = "object" /\ Sprint(MapGet(Head(arr).v, field)) = val THEN <<Head(arr)>>
    ELSE FilterFirstElement(Tail(arr), field, val)

\* The elements of arr that are objects whose field prints as val, in order.
RECURSIVE FilterElements(_, _, _)
FilterElements(arr, field, val) ==
    IF Len(arr) = 0 THEN <<>>
    ELSE (IF Head(arr).t = "object" /\ Sprint(MapGet(Head(arr).v, field)) = val
          THEN <<Head(arr)>> ELSE <<>>) \o FilterElements(Tail(arr), field, val)

\* Faulty: the last element is out of range too.
IndexBeforeLast(idx, n) == idx < 0 \/ idx + 1 >= n

\* idx < 0 || idx >= len(arr)
IndexOutOfRange(idx, n) == idx < 0 \/ idx >= n

\* One segment of a dotted path applied to cur: name, name[N], [N].
EvalSegment(cur, seg) ==
    LET Index(idx, named) ==
            IF idx < 0 THEN Ret(named, NoErr)
            ELSE IF named.t # "array"
                 THEN Ret(JNil, Errorf("expected array for segment %s", <<seg>>))
            ELSE IF IndexOutOfRange(idx, Len(named.v))
                 THEN Ret(JNil, Errorf("index out of range for segment %s", <<seg>>))
            ELSE Ret(named.v[idx + 1], NoErr)
        Named(name, idStr, idxOk) ==
            IF idStr # "" /\ ~idxOk THEN Ret(JNil, Errorf("invalid index in segment %s", <<seg>>))
            ELSE IF name # "" /\ cur.t # "object"
                 THEN Ret(JNil, Errorf("expected object for segment %s", <<name>>))
            ELSE Index(IF idStr # "" THEN Atoi(idStr) ELSE -1,
                       IF name # "" THEN MapGet(cur.v, name) ELSE cur)
        Parsed(name, idStr) == Named(name, idStr, AtoiOk(idStr))
        Parts(bracket, parts) ==
            Parsed(IF bracket THEN parts[1] ELSE seg,
                   IF bracket THEN TrimSuffix(parts[2], "]") ELSE "")
    IN  Parts(Contains(seg, "[") /\ HasSuffix(seg, "]"), SplitN2(seg, "["))

RECURSIVE EvalSegments(_, _)
EvalSegments(cur, segments) ==
    LET Then(r) == IF r.err # NoErr THEN r ELSE EvalSegments(r.val, Tail(segments))
    IN  IF Len(segments) = 0 THEN Ret(cur, NoErr)
        ELSE IF Head(segments) = "" THEN EvalSegments(cur, Tail(segments))
        ELSE Then(EvalSegment(cur, Head(segments)))

RECURSIVE evalJSONPath(_, _)
evalJSONPath(obj, path) ==
    LET Filtered(fm, matches) ==
            IF Len(matches) = 0 THEN Ret(JNil, Errorf("no match for filter %s", <<path>>))
            ELSE IF fm.rest # "" THEN evalJSONPath(matches[1], fm.rest)
            ELSE Ret(JArr(matches), NoErr)
        Indexed(im, n) ==
            IF obj.t # "array" THEN Ret(JNil, Errorf("expected array for index %s", <<path>>))
            ELSE IF IndexOutOfRange(n, Len(obj.v))
                 THEN Ret(JNil, Errorf("index out of range for %s", <<path>>))
            ELSE IF im.rest # "" THEN evalJSONPath(obj.v[n + 1], im.rest)
            ELSE Ret(obj.v[n + 1], NoErr)
        Forms(p, fm, im) ==
            IF p = "" THEN Ret(JNil, Errorf("empty path", <<>>))
            ELSE IF fm.ok THEN
                IF obj.t # "array" THEN Ret(JNil, Errorf("expected array for filter %s", <<path>>))
                ELSE Filtered(fm, FilterElements(obj.v, fm.field, fm.val))
            ELSE IF im.ok THEN Indexed(im, DigitsValue(im.idx))
            ELSE EvalSegments(obj, Split(TrimPrefix(TrimPrefix(p, "$."), "$"), "."))
        Trimmed(p) == Forms(p, FilterMatch(p), IndexMatch(p))
    IN  Trimmed(TrimSpace(path))

(***************************************************************************)
(* Library calls the runner makes: path/filepath, net/textproto, regexp.   *)
(***************************************************************************)
\* strings.LastIndex for a one-character sub: 0-based, -1 if none.
LastIndex(s, c) ==
    LET Last(hits) == IF hits = {} THEN -1 ELSE (CHOOSE i \in hits : \A j \in hits : j <= i) - 1
    IN  Last({i \in 1..Len(s) : SubSeq(s, i, i) = c})

\* filepath.Base and filepath.Dir of a cleaned slash-separated path.
FilepathBase(path) ==
    IF path = "" THEN "." ELSE SubSeq(path, LastIndex(path, "/") + 2, Len(path))

FilepathDir(path) ==
    LET Upto(i) == IF i < 0 THEN "." ELSE IF i = 0 THEN "/" ELSE SubSeq(path, 1, i)
    IN  Upto(LastIndex(path, "/"))

FilepathIsAbs(path) == HasPrefix(path, "/")

\* filepath.Join of a directory and a relative name (both already clean).
FilepathJoin(dir, name) ==
    IF dir = "." \/ dir = "" THEN name
    ELSE IF HasSuffix(dir, "/") THEN dir \o name
    ELSE dir \o "/" \o name

LowerLetters == "abcdefghijklmnopqrstuvwxyz"
UpperLetters == "ABCDEFGHIJKLMNOPQRSTUVWXYZ"

ToUpperCh(c) ==
    LET At(i) == IF Len(c) = 1 /\ i >= 0 THEN SubSeq(UpperLetters, i + 1, i + 1) ELSE c
    IN  At(StringsIndex(LowerLetters, c))

ToLowerCh(c) ==
    LET At(i) == IF Len(c) = 1 /\ i >= 0 THEN SubSeq(LowerLetters, i + 1, i + 1) ELSE c
    IN  At(StringsIndex(UpperLetters, c))

RECURSIVE ToUpper(_)
ToUpper(s) == IF s = "" THEN "" ELSE ToUpperCh(SubSeq(s, 1, 1)) \o ToUpper(SubSeq(s, 2, Len(s)))

TokenChars == "abcdefghijklmnopqrstuvwxyzABCDEFGHIJKLMNOPQRSTUVWXYZ0123456789!#$%&'*+-.^_|~"

IsTokenChar(c) == OneOf(c, TokenChars)

\* textproto.CanonicalMIMEHeaderKey: the first letter and every letter after a
\* hyphen in upper case, the others in lower case; a key holding a byte that is
\* not a token character is returned unchanged.
RECURSIVE CanonicalFrom(_, _)
CanonicalFrom(s, upper) ==
    IF s = "" THEN ""
    ELSE (IF upper THEN ToUpperCh(SubSeq(s, 1, 1)) ELSE ToLowerCh(SubSeq(s, 1, 1)))
            \o CanonicalFrom(SubSeq(s, 2, Len(s)), SubSeq(s, 1, 1) = "-")

CanonicalHeaderKey(s) ==
    IF \A i \in 1..Len(s) : IsTokenChar(SubSeq(s, i, i)) THEN CanonicalFrom(s, TRUE) ELSE s

\* http.Header.Get: "" when the header is absent.
HeaderGet(h, name) ==
    LET Get(key) == IF key \in DOMAIN h THEN h[key] ELSE ""
    IN  Get(CanonicalHeaderKey(name))

\* http.Header.Set on a header map.
HeaderSet(h, name, value) ==
    LET Set(key) == [k \in DOMAIN h \cup {key} |-> IF k = key THEN value ELSE h[k]]
    IN  Set(CanonicalHeaderKey(name))

\* Go's map read: the zero value "" for a missing key.
VarGet(vars, k) == IF k \in DOMAIN vars THEN vars[k] ELSE ""

\* Faulty: base_url stays what the document configured.
VarSetKeepsBase(vars, k, x) ==
    IF k = "base_url" THEN vars
    ELSE [n \in DOMAIN vars \cup {k} |-> IF n = k THEN x ELSE vars[n]]

\* A map write vars[k] = x.
VarSet(vars, k, x) == [n \in DOMAIN vars \cup {k} |-> IF n = k THEN x ELSE vars[n]]

\* The regular expressions the workflow documents use.  regexp.Compile fails on
\* "("; FindStringSubmatch returns <<>> for no match, else the whole match
\* followed by the groups.  A pattern without metacharacters matches itself.
\* The message is regexp's without the backquotes it puts around the
\* expression, which a string of the model cannot hold.
RegexpCompileErr(re) ==
    IF re = "(" THEN Errorf("error parsing regexp: missing closing ): (", <<>>) ELSE NoErr

FindStringSubmatch(re, s) ==
    LET Bearer(i) == IF i < 0 THEN <<>> ELSE <<SubSeq(s, i + 1, Len(s)), SubSeq(s, i + 8, Len(s))>>
        DigitRun(a) == <<SubSeq(s, a, RunEnd(s, a, IsDigit))>>
        FirstDigit(starts) ==
            IF starts = {} THEN <<>> ELSE DigitRun(CHOOSE i \in starts : \A j \in starts : i <= j)
    IN  CASE re = "Bearer (.*)" -> Bearer(StringsIndex(s, "Bearer "))
          [] re = "[0-9]+" -> FirstDigit({i \in 1..Len(s) : IsDigit(SubSeq(s, i, i))})
          [] OTHER -> IF Contains(s, re) THEN <<re>> ELSE <<>>

(***************************************************************************)
(* The workflow document types (InstructionsFile, Step, StepRequest,       *)
(* StepExpect, JSONPathVal, HeaderExpectation, Capture, Output).  A Go map *)
(* is a function; the nil map is the empty function.                       *)
(***************************************************************************)
NilMap == <<>>

StepRequest(method, url, headers, body, bodyFile, params) ==
    [Method |-> method, URL |-> url, Headers |-> headers, Body |-> body,
     BodyFile |-> bodyFile, Params |-> params]

StepExpect(status, jsonPathMatch, headers) ==
    [Status |-> status, JSONPathMatch |-> jsonPathMatch, Headers |-> headers]

JSONPathVal(path, value) == [Path |-> path, Value |-> value]

HeaderExpectation(name, value, contains) == [Name |-> name, Value |-> value, Contains |-> contains]

Capture(jsonPath, header, regex, as) ==
    [JSONPath |-> jsonPath, Header |-> header, Regex |-> regex, As |-> as]

Step(step, description, request, expect, capture, print) ==
    [Step |-> step, Description |-> description, Request |-> request, Expect |-> expect,
     Capture |-> capture, Output |-> [print |-> print]]

InstructionsFile(name, baseURL, workflow) ==
    [Metadata |-> [Name |-> name, Author |-> "", Description |-> ""],
     Config |-> [BaseURL |-> baseURL],
     Workflow |-> workflow]

\* var spec InstructionsFile
ZeroInstructionsFile == InstructionsFile("", "", <<>>)

StepError(file, step, description, err) ==
    [File |-> file, Step |-> step, Description |-> description, Err |-> err]

(***************************************************************************)
(* applyVarsToInterface: strings substituted, slices and maps walked, any  *)
(* other value returned as it is.                                          *)
(***************************************************************************)
RECURSIVE applyVarsToInterface(_, _)
applyVarsToInterface(val, vars) ==
    CASE val.t = "string" -> JStr(applyVars(val.v, vars))
      [] val.t = "array"  -> JArr([i \in 1..Len(val.v) |-> applyVarsToInterface(val.v[i], vars)])
      [] val.t = "object" -> JObj([k \in DOMAIN val.v |-> applyVarsToInterface(val.v[k], vars)])
      [] OTHER -> val

\* What the value handed to applyVarsToInterface holds after the call: the
\* function assigns into the slice or map it is given (v[i] = ..., v[k] = ...),
\* so the caller's value is walked and substituted too; a string is not.
ArgumentAfter(val, vars) ==
    IF val.t \in {"array", "object"} THEN applyVarsToInterface(val, vars) ELSE val

(***************************************************************************)
(* executeStep, first half: everything up to r.client.Do(req).             *)
(***************************************************************************)
\* http.NewRequest rejects a method that is not a token; the URLs of the
\* model's documents all parse.
NewRequestErr(method, url) ==
    IF method # "" /\ \A i \in 1..Len(method) : IsTokenChar(SubSeq(method, i, i)) THEN NoErr
    ELSE Errorf("net/http: invalid method %q", <<method>>)

\* req.Header.Set(k, applyVars(v, vars)) for every declared header.  Go ranges
\* over the map in no fixed order; the order matters only for two keys with
\* one canonical form, which the model's documents do not declare.
RECURSIVE SetHeaders(_, _, _, _)
SetHeaders(h, declared, keys, vars) ==
    IF Len(keys) = 0 THEN h
    ELSE SetHeaders(HeaderSet(h, Head(keys), applyVars(declared[Head(keys)], vars)),
                    declared, Tail(keys), vars)

\* url.QueryEscape over the characters the model's parameters use.
QueryEscapeCh(c) ==
    CASE c = " " -> "+"
      [] c = "$" -> "%24"
      [] c = "&" -> "%26"
      [] c = "/" -> "%2F"
      [] c = ":" -> "%3A"
      [] c = "=" -> "%3D"
      [] c = "?" -> "%3F"
      [] c = "{" -> "%7B"
      [] c = "}" -> "%7D"
      [] OTHER -> c

RECURSIVE QueryEscape(_)
QueryEscape(s) ==
    IF s = "" THEN "" ELSE QueryEscapeCh(SubSeq(s, 1, 1)) \o QueryEscape(SubSeq(s, 2, Len(s)))

\* url.Values.Encode of the step's params, each value substituted: key=value
\* pairs sorted by key and joined by "&".
RECURSIVE EncodeParams(_, _, _)
EncodeParams(params, keys, vars) ==
    IF Len(keys) = 0 THEN ""
    ELSE QueryEscape(Head(keys)) \o "=" \o QueryEscape(applyVars(params[Head(keys)], vars))
            \o (IF Len(keys) > 1 THEN "&" ELSE "") \o EncodeParams(params, Tail(keys), vars)

\* Faulty: the literal query of the URL is kept beside the params.
KeepQuery(requestURL, params) == requestURL

\* if len(step.Request.Params) > 0: the URL is cut at its first "?".
CutQuery(requestURL, params) ==
    LET Cut(idx) == IF idx >= 0 THEN SubSeq(requestURL, 1, idx) ELSE requestURL
    IN  IF DOMAIN params # {} THEN Cut(StringsIndex(requestURL, "?")) ELSE requestURL

\* url joined to vars["base_url"] unless it starts with "http" or there is none.
JoinBaseURL(url, base) ==
    IF ~HasPrefix(url, "http") /\ base # ""
    THEN TrimSuffix(base, "/") \o "/" \o TrimPrefix(url, "/")
    ELSE url

\* The request URL: variables substituted, a literal query cut off when the
\* step has params, then joined to base_url unless it starts with "http".
RequestURL(request, vars) ==
    JoinBaseURL(CutQuery(applyVars(request.URL, vars), request.Params), VarGet(vars, "base_url"))

\* The step's body after applyVarsToInterface (the map is rewritten in place).
SubstitutedBody(bodyData, vars) ==
    IF DOMAIN bodyData # {} THEN applyVarsToInterface(JObj(bodyData), vars).v ELSE bodyData

\* [err, req, logs]: the error executeStep returns before sending (NoErr if
\* none), the request handed to client.Do, and the messages logged so far.
BuildRequest(step, bodyData, bodySource, vars, verbose) ==
    LET hasBody == DOMAIN bodyData # {}
        Built(method, url, header, query) ==
            [err |-> Wrap(NewRequestErr(method, url), "build request"),
             req |-> [Method |-> method,
                      URL |-> IF DOMAIN step.Request.Params # {} THEN url \o "?" \o query ELSE url,
                      Header |-> header,
                      Body |-> SubstitutedBody(bodyData, vars)],
             logs |-> (IF verbose THEN <<"Executing step: " \o step.Step>> ELSE <<>>)
                      \o (IF hasBody /\ verbose /\ bodySource # ""
                          THEN <<"Using body from: " \o bodySource>> ELSE <<>>)]
        Method(m) ==
            Built(IF m = "" THEN "GET" ELSE m,
                  RequestURL(step.Request, vars),
                  SetHeaders(IF hasBody
                             THEN Map2("User-Agent", "ramjam-cli", "Content-Type", "application/json")
                             ELSE Map1("User-Agent", "ramjam-cli"),
                             step.Request.Headers, SortedKeys(DOMAIN step.Request.Headers), vars),
                  EncodeParams(step.Request.Params, SortedKeys(DOMAIN step.Request.Params), vars))
    IN  Method(ToUpper(TrimSpace(step.Request.Method)))

(***************************************************************************)
(* executeStep, second half: from the return of client.Do to the end.      *)
(* Each part yields [err, vars, logs]: the error that ends the step (NoErr *)
(* to go on), the variable store, and the messages logged.                 *)
(***************************************************************************)
\* writes lists the (name, value) pairs the captures stored, in order.
OutW(err, vars, logs, writes) == [err |-> err, vars |-> vars, logs |-> logs, writes |-> writes]

Out(err, vars, logs) == OutW(err, vars, logs, <<>>)

CheckHeader(he, resp, vars, verbose) ==
    LET Checked(name, actual, expValue, expContains) ==
            LET logValue == IF he.Value # "" /\ verbose
                            THEN <<"Asserting header " \o name \o " == " \o expValue>> ELSE <<>>
                logContains == IF he.Contains # "" /\ verbose
                               THEN <<"Asserting header " \o name \o " contains " \o expContains>>
                               ELSE <<>>
            IN  IF name = ""
                THEN Out(Errorf("header expectation must specify a name", <<>>), vars, <<>>)
                ELSE IF he.Value = "" /\ he.Contains = ""
                THEN Out(Errorf("header expectation for %s must specify value or contains", <<name>>),
                         vars, <<>>)
                ELSE IF he.Value # "" /\ actual # expValue
                THEN Out(Errorf("expected header %s to equal %q, got %q", <<name, expValue, actual>>),
                         vars, logValue)
                ELSE IF he.Contains # "" /\ ~Contains(actual, expContains)
                THEN Out(Errorf("expected header %s to contain %q, got %q",
                                <<name, expContains, actual>>),
                         vars, logValue \o logContains)
                ELSE Out(NoErr, vars, logValue \o logContains)
    IN  Checked(TrimSpace(he.Name), HeaderGet(resp.Header, TrimSpace(he.Name)),
                applyVars(he.Value, vars), applyVars(he.Contains, vars))

RECURSIVE CheckHeaders(_, _, _, _)
CheckHeaders(hs, resp, vars, verbose) ==
    LET Both(one, rest) ==
            IF one.err # NoErr THEN one ELSE Out(rest.err, vars, one.logs \o rest.logs)
    IN  IF Len(hs) = 0 THEN Out(NoErr, vars, <<>>)
        ELSE Both(CheckHeader(Head(hs), resp, vars, verbose),
                  CheckHeaders(Tail(hs), resp, vars, verbose))

\* Faulty: only a JSON string can equal the expected text.
MatchesAsString(actual, expected) == actual.t = "string" /\ actual.v = expected

\* fmt.Sprint(actual) == expected
Matches(actual, expected) == Sprint(actual) = expected

CheckMatcher(matcher, jsonObj, vars, verbose) ==
    LET Compared(r, expected) ==
            LET logs == IF verbose THEN <<"Asserting " \o matcher.Path \o " == " \o expected>>
                        ELSE <<>>
            IN  IF r.err # NoErr THEN Out(Wrap(r.err, "jsonpath " \o matcher.Path), vars, <<>>)
                ELSE IF ~Matches(r.val, expected)
                THEN Out(Errorf("jsonpath %s expected %q, got %q",
                                <<matcher.Path, expected, r.val>>),
                         vars, logs)
                ELSE Out(NoErr, vars, logs)
    IN  Compared(evalJSONPath(jsonObj, matcher.Path), applyVars(Sprint(matcher.Value), vars))

RECURSIVE CheckMatchers(_, _, _, _)
CheckMatchers(ms, jsonObj, vars, verbose) ==
    LET Both(one, rest) ==
            IF one.err # NoErr THEN one ELSE Out(rest.err, vars, one.logs \o rest.logs)
    IN  IF Len(ms) = 0 THEN Out(NoErr, vars, <<>>)
        ELSE Both(CheckMatcher(Head(ms), jsonObj, vars, verbose),
                  CheckMatchers(Tail(ms), jsonObj, vars, verbose))

\* Faulty: a capture without a source is read as a header capture.
CaptureSourceOrHeader(cap) == IF cap.JSONPath # "" THEN "json_path" ELSE "header"

\* The branch the if / else if / else of a capture takes.
CaptureSource(cap) ==
    IF cap.JSONPath # "" THEN "json_path" ELSE IF cap.Header # "" THEN "header" ELSE "none"

\* Faulty: the whole match is taken even when the pattern has a group.
WholeMatch(matches) == matches[1]

\* matches[1] of Go when len(matches) > 1, else matches[0]; matches is not empty.
SubmatchValue(matches) == IF Len(matches) > 1 THEN matches[2] ELSE matches[1]

\* The value one capture extracts, as Ret(string, err).
CaptureValue(cap, jsonObj, resp) ==
    LET FromJSON(r) ==
            IF r.err # NoErr THEN Ret("", Wrap(r.err, "capture json_path " \o cap.JSONPath))
            ELSE Ret(Sprint(r.val), NoErr)
        Matched(headerVal, matches) ==
            IF Len(matches) > 0 THEN Ret(SubmatchValue(matches), NoErr)
            ELSE Ret("", Errorf("regex %s did not match header %s value %q",
                                <<cap.Regex, cap.Header, headerVal>>))
        Compiled(headerVal, compileErr) ==
            IF compileErr # NoErr THEN Ret("", Wrap(compileErr, "invalid regex " \o cap.Regex))
            ELSE Matched(headerVal, FindStringSubmatch(cap.Regex, headerVal))
        FromHeader(headerVal) ==
            IF cap.Regex = "" THEN Ret(headerVal, NoErr)
            ELSE Compiled(headerVal, RegexpCompileErr(cap.Regex))
        From(source) ==
            CASE source = "json_path" -> FromJSON(evalJSONPath(jsonObj, cap.JSONPath))
              [] source = "header" -> FromHeader(HeaderGet(resp.Header, cap.Header))
              [] OTHER -> Ret("", Errorf("capture must specify json_path or header", <<>>))
    IN  From(CaptureSource(cap))

\* The captures in declared order; each stores into the map at once, so a
\* failing capture leaves the earlier ones stored.
RECURSIVE DoCaptures(_, _, _, _, _)
DoCaptures(caps, jsonObj, resp, vars, verbose) ==
    LET Rest(logs, write, rest) ==
            OutW(rest.err, rest.vars, logs \o rest.logs, <<write>> \o rest.writes)
        Stored(cap, r) ==
            IF r.err # NoErr THEN Out(r.err, vars, <<>>)
            ELSE Rest(IF verbose THEN <<"Captured " \o cap.As \o " => " \o r.val>> ELSE <<>>,
                      <<cap.As, r.val>>,
                      DoCaptures(Tail(caps), jsonObj, resp, VarSet(vars, cap.As, r.val), verbose))
    IN  IF Len(caps) = 0 THEN Out(NoErr, vars, <<>>)
        ELSE Stored(Head(caps), CaptureValue(Head(caps), jsonObj, resp))

\* Faulty: the status is never compared.
StatusIgnored(expected, actual) == FALSE

\* Faulty: the zero value of expect.status is compared like any other.
StatusAlwaysCompared(expected, actual) == actual # expected

\* step.Expect.Status != 0 && resp.StatusCode != step.Expect.Status
StatusMismatch(expected, actual) == expected # 0 /\ actual # expected

\* Faulty: a body that does not parse is taken as no body.
DecodedOrNil(body) ==
    IF Len(body.raw) > 0 /\ body.json.err = NoErr THEN body.json ELSE Ret(JNil, NoErr)

\* Faulty: an empty body is handed to json.Unmarshal like any other.
DecodedAlways(body) == body.json

\* var jsonObj interface{}; json.Unmarshal(rawBody, &jsonObj) only when
\* len(rawBody) > 0: jsonObj stays nil for an empty body.
DecodedBody(body) == IF Len(body.raw) > 0 THEN body.json ELSE Ret(JNil, NoErr)

\* Faulty: a capture list that fails leaves the store as it was before the step.
CapturesRolledBack(before, partial) == before

\* vars[cap.As] = ... writes into the caller's map at once: when a capture
\* fails, what the captures before it stored stays.
CapturesKept(before, partial) == partial

\* Faulty: the template is printed as it is written.
OutputUnsubstituted(print, vars) == IF print # "" THEN <<print>> ELSE <<>>

\* if step.Output.Print != "" { log("%s", applyVars(step.Output.Print, vars)) }
OutputLines(print, vars) == IF print # "" THEN <<applyVars(print, vars)>> ELSE <<>>

\* do is what client.Do returned, Ret(resp, err).
HandleResponse(step, do, vars, verbose) ==
    LET resp == do.val
        Captured(logs, cp) ==
            IF cp.err # NoErr
            THEN OutW(cp.err, CapturesKept(vars, cp.vars), logs \o cp.logs, cp.writes)
            ELSE OutW(NoErr, cp.vars,
                      logs \o cp.logs \o OutputLines(step.Output.print, cp.vars),
                      cp.writes)
        Matched(logs, jsonObj, mc) ==
            IF mc.err # NoErr THEN Out(mc.err, vars, logs \o mc.logs)
            ELSE Captured(logs \o mc.logs, DoCaptures(step.Capture, jsonObj, resp, vars, verbose))
        Parsed(logs, parsed) ==
            IF parsed.err # NoErr THEN Out(Wrap(parsed.err, "parse response json"), vars, logs)
            ELSE Matched(logs, parsed.val,
                         CheckMatchers(step.Expect.JSONPathMatch, parsed.val, vars, verbose))
        HeadersChecked(logs, hc) ==
            IF hc.err # NoErr THEN Out(hc.err, vars, logs \o hc.logs)
            ELSE IF resp.Body.readErr # NoErr
            THEN Out(Wrap(resp.Body.readErr, "read body"), vars, logs \o hc.logs)
            ELSE Parsed(logs \o hc.logs, DecodedBody(resp.Body))
        Received(logs) ==
            IF StatusMismatch(step.Expect.Status, resp.StatusCode)
            THEN Out(Errorf("expected status %d, got %d", <<step.Expect.Status, resp.StatusCode>>),
                     vars, logs)
            ELSE HeadersChecked(logs, CheckHeaders(step.Expect.Headers, resp, vars, verbose))
    IN  IF do.err # NoErr THEN Out(Wrap(do.err, "request"), vars, <<>>)
        ELSE Received(IF verbose THEN <<"Received status: " \o FormatInt(resp.StatusCode)>>
                      ELSE <<>>)

(***************************************************************************)
(* The world the runner is run in: the files on disk and the HTTP server.  *)
(* A file is what the decoders make of its bytes: yaml is the result of    *)
(* yaml.Unmarshal into an InstructionsFile, json the result of             *)
(* json.Unmarshal into an interface{}.                                     *)
(***************************************************************************)
\* Faulty: a decoder that takes any bytes for an empty document.
YAMLAccepted == Ret(ZeroInstructionsFile, NoErr)

NotYAML == Ret(ZeroInstructionsFile, Errorf("yaml: did not find expected node content", <<>>))
NotJSON == Ret(JNil, Errorf("invalid character 'x' looking for beginning of value", <<>>))

\* expect.status left out of a step: the zero value, which is not checked.
NoStatus == 0

\* a.yaml: captures the id and uses it in the URL, a header, the body, a header
\* expectation, a path expectation and the output of the next step
\* (TestVariableSubstitution); the third step captures under the same name
\* again and the fourth uses the new value.
DocA ==
    InstructionsFile("A", "http://s", <<
        Step("get-id", "fetch the id",
             StepRequest("GET", "/c", NilMap, NilMap, "", NilMap),
             StepExpect(200, <<JSONPathVal("$.n", JNum(30))>>, <<>>),
             <<Capture("id", "", "", "i")>>,
             "id=${i}"),
        Step("use", "post with the id",
             StepRequest("post", "/u/${i}", Map1("x-req", "r-${i}"), Map1("id", JStr("${i}")), "",
                         NilMap),
             StepExpect(200, <<JSONPathVal("id", JStr("${i}"))>>,
                        <<HeaderExpectation("X-Echo", "${i}", "")>>),
             <<>>,
             "used ${i}"),
        Step("again", "capture i again",
             StepRequest("GET", "/c", NilMap, NilMap, "", Map1("q", "${i}")),
             StepExpect(200, <<>>, <<HeaderExpectation("x-token", "", "abc")>>),
             <<Capture("", "x-token", "Bearer (.*)", "i")>>,
             "now ${i}"),
        Step("last", "use the second value",
             StepRequest("GET", "/u/${i}", NilMap, NilMap, "", NilMap),
             StepExpect(NoStatus, <<>>, <<>>),
             <<>>,
             "last ${i}") >>)

\* b.yaml: a failing step followed by a passing one (TestContinueOnFailure);
\* the second step names a variable that this document never captures.
DocB ==
    InstructionsFile("", "http://s/", <<
        Step("fail-step", "",
             StepRequest("", "/f", NilMap, NilMap, "", NilMap),
             StepExpect(200, <<>>, <<>>),
             <<>>,
             ""),
        Step("peek", "no capture of i here",
             StepRequest("GET", "u/${i}", NilMap, NilMap, "", NilMap),
             StepExpect(NoStatus, <<>>, <<>>),
             <<>>,
             "i=${i}") >>)

\* c.yaml: the first step names a body file that does not exist, the third
\* one that is not JSON, the fourth one that holds a JSON object.
DocC ==
    InstructionsFile("C", "http://s", <<
        Step("post-file", "body from a file",
             StepRequest("POST", "/u/7", NilMap, NilMap, "missing.json", NilMap),
             StepExpect(200, <<>>, <<>>),
             <<>>,
             "posted"),
        Step("token", "",
             StepRequest("GET", "/c", NilMap, NilMap, "", NilMap),
             StepExpect(200, <<>>, <<>>),
             <<Capture("", "x-token", "Bearer (.*)", "tok")>>,
             "tok=${tok}"),
        Step("post-text", "body file that is not JSON",
             StepRequest("POST", "/u/7", NilMap, NilMap, "e.yaml", NilMap),
             StepExpect(200, <<>>, <<>>),
             <<Capture("id", "", "", "tok")>>,
             "posted"),
        Step("post-json", "body file with placeholders",
             StepRequest("POST", "/u/7", NilMap, NilMap, "body.json", NilMap),
             StepExpect(200, <<>>, <<>>),
             <<>>,
             "sent ${tok}") >>)

\* f.yaml: no base_url; a request that cannot be sent, a response that is not
\* JSON, a capture list of three whose second entry names no source, then a
\* passing step.
DocF ==
    InstructionsFile("F", "", <<
        Step("no-host", "relative url without base_url",
             StepRequest("GET", "/c", NilMap, NilMap, "", NilMap),
             StepExpect(NoStatus, <<>>, <<>>),
             <<>>,
             "unreached"),
        Step("bad-json", "",
             StepRequest("GET", "http://s/bad", NilMap, NilMap, "", NilMap),
             StepExpect(200, <<>>, <<>>),
             <<>>,
             ""),
        Step("no-source", "second capture has no source",
             StepRequest("GET", "http://s/c", NilMap, NilMap, "", NilMap),
             StepExpect(NoStatus, <<>>, <<>>),
             <<Capture("id", "", "", "i"), Capture("", "", "", "x"), Capture("n", "", "", "y")>>,
             "unreached"),
        Step("after", "",
             StepRequest("GET", "http://s/u/${i}", NilMap, NilMap, "", NilMap),
             StepExpect(200, <<>>, <<>>),
             <<>>,
             "i=${i}") >>)

\* g.yaml: the first step captures base_url from the response; the second
\* has a relative URL, the third names ${base_url} in its URL.
DocG ==
    InstructionsFile("G", "http://s", <<
        Step("find", "capture base_url",
             StepRequest("GET", "/home", NilMap, NilMap, "", NilMap),
             StepExpect(200, <<>>, <<>>),
             <<Capture("base", "", "", "base_url")>>,
             "at ${base_url}"),
        Step("there", "relative url",
             StepRequest("GET", "/7", NilMap, NilMap, "", NilMap),
             StepExpect(200, <<>>, <<HeaderExpectation("X-Echo", "7", "")>>),
             <<>>,
             "from ${base_url}"),
        Step("named", "url that names base_url",
             StepRequest("GET", "${base_url}/7", NilMap, NilMap, "", NilMap),
             StepExpect(200, <<>>, <<>>),
             <<>>,
             "") >>)

\* x/a.yaml and x/b.yml: one passing step.
DocX ==
    InstructionsFile("", "http://s", <<
        Step("ping", "",
             StepRequest("GET", "/c", NilMap, NilMap, "", NilMap),
             StepExpect(200, <<>>, <<>>),
             <<>>,
             "pong") >>)

\* The files on disk.  w/d.yaml is listed in the directory but cannot be read;
\* w/e.yaml is neither a YAML mapping nor JSON; w/body.json is a JSON object.
Disk ==
    [path \in {"w/a.yaml", "w/b.yaml", "w/c.yaml", "w/e.yaml", "w/f.yaml", "w/g.yaml", "w/body.json",
                "x/a.yaml", "x/b.yml", "x/notes.txt", "s/one.yml", "s/two.txt", "w/empty.json"} |->
        CASE path = "w/a.yaml" -> [yaml |-> Ret(DocA, NoErr), json |-> NotJSON]
          [] path = "w/body.json" ->
                [yaml |-> NotYAML,
                 json |-> Ret(JObj(Map2("id", JStr("${tok}"),
                                        "tags", JArr(<<JStr("t-${tok}"), JNum(1)>>))), NoErr)]
          [] path = "w/empty.json" -> [yaml |-> NotYAML, json |-> Ret(JObj(NilMap), NoErr)]
          [] path = "w/b.yaml" -> [yaml |-> Ret(DocB, NoErr), json |-> NotJSON]
          [] path = "w/c.yaml" -> [yaml |-> Ret(DocC, NoErr), json |-> NotJSON]
          [] path = "w/e.yaml" -> [yaml |-> NotYAML, json |-> NotJSON]
          [] path = "w/f.yaml" -> [yaml |-> Ret(DocF, NoErr), json |-> NotJSON]
          [] path = "w/g.yaml" -> [yaml |-> Ret(DocG, NoErr), json |-> NotJSON]
          [] path = "x/a.yaml" -> [yaml |-> Ret(DocX, NoErr), json |-> NotJSON]
          [] path = "x/b.yml" -> [yaml |-> Ret(DocX, NoErr), json |-> NotJSON]
          [] path = "s/one.yml" -> [yaml |-> Ret(DocX, NoErr), json |-> NotJSON]
          [] path \in {"x/notes.txt", "s/two.txt"} -> [yaml |-> NotYAML, json |-> NotJSON]]

NoData == [yaml |-> NotYAML, json |-> NotJSON]

\* os.ReadFile
ReadFile(path) ==
    IF path \in DOMAIN Disk THEN Ret(Disk[path], NoErr)
    ELSE Ret(NoData, Errorf("open %s: no such file or directory", <<path>>))

\* json.Unmarshal(data, &bodyData) with bodyData a map[string]interface{}:
\* an object fills the map, null leaves it nil, any other JSON is an error.
UnmarshalObject(data) ==
    IF data.json.err # NoErr THEN Ret(NilMap, data.json.err)
    ELSE IF data.json.val.t = "object" THEN Ret(data.json.val.v, NoErr)
    ELSE IF data.json.val.t = "nil" THEN Ret(NilMap, NoErr)
    ELSE Ret(NilMap, Errorf("json: cannot unmarshal %s into Go value of type map[string]interface {}",
                            <<data.json.val.t>>))

\* A response: the status, the headers under their canonical names, and the
\* body with what io.ReadAll and json.Unmarshal make of it.
Response(status, header, raw, json) ==
    [StatusCode |-> status, Header |-> header,
     Body |-> [raw |-> raw, json |-> json, readErr |-> NoErr]]

NoResponse == Response(0, NilMap, "", Ret(JNil, NoErr))

\* client.Do against the test server at http://s, as Ret(resp, err).  The
\* server answers by path; a query string does not change the answer.
ClientDo(req) ==
    LET Routed(route) ==
            CASE route = "/c" ->
                    Ret(Response(200,
                                 Map2("Content-Type", "application/json", "X-Token", "Bearer abc"),
                                 "{\"id\":\"7\",\"n\":30}",
                                 Ret(JObj(Map2("id", JStr("7"), "n", JNum(30))), NoErr)),
                        NoErr)
              [] route = "/u/7" ->
                    Ret(Response(200, Map1("X-Echo", "7"), "{\"id\":\"7\"}",
                                 Ret(JObj(Map1("id", JStr("7"))), NoErr)),
                        NoErr)
              [] route = "/home" ->
                    Ret(Response(200, NilMap, "{\"base\":\"http://s/u\"}",
                                 Ret(JObj(Map1("base", JStr("http://s/u"))), NoErr)),
                        NoErr)
              [] route = "/f" ->
                    Ret(Response(500, NilMap, "", Ret(JNil, NoErr)), NoErr)
              [] route = "/bad" ->
                    Ret(Response(200, NilMap, "x", NotJSON), NoErr)
              [] OTHER ->
                    Ret(Response(404, NilMap, "", Ret(JNil, NoErr)), NoErr)
    IN  IF ~HasPrefix(req.URL, "http://") /\ ~HasPrefix(req.URL, "https://")
        THEN Ret(NoResponse,
                 Errorf("%s %q: unsupported protocol scheme %q", <<req.Method, req.URL, "">>))
        ELSE IF ~HasPrefix(req.URL, "http://s/")
        THEN Ret(NoResponse, Errorf("%s %q: dial tcp: no such host", <<req.Method, req.URL>>))
        ELSE Routed(Split(TrimPrefix(req.URL, "http://s"), "?")[1])

(***************************************************************************)
(* resolveBodyFile: [err, bodyData, bodySource] for one step.              *)
(***************************************************************************)
\* Faulty: the inline body is taken whenever there is one.
InlineBodyFirst(request) == request.BodyFile = "" \/ DOMAIN request.Body # {}

\* step.Request.BodyFile == "": the inline body is looked at only then.
InlineBodyOnly(request) == request.BodyFile = ""

\* Faulty: a body file that cannot be used is passed over in silence.
BodyFileIgnored(step, baseDir) == [err |-> NoErr, bodyData |-> NilMap, bodySource |-> ""]

resolveBodyFile(step, baseDir) ==
    LET bodyFile == step.Request.BodyFile
        Resolved(err, bodyData, bodySource) ==
            [err |-> err, bodyData |-> bodyData, bodySource |-> bodySource]
        Unmarshalled(parsed) ==
            IF parsed.err # NoErr
            THEN Resolved(Wrap(parsed.err, "parse body file " \o bodyFile), NilMap, "")
            ELSE Resolved(NoErr, parsed.val, bodyFile)
        Read(rd) ==
            IF rd.err # NoErr THEN Resolved(Wrap(rd.err, "read body file " \o bodyFile), NilMap, "")
            ELSE Unmarshalled(UnmarshalObject(rd.val))
    IN  IF InlineBodyOnly(step.Request) THEN
            IF DOMAIN step.Request.Body # {} THEN Resolved(NoErr, step.Request.Body, "inline")
            ELSE Resolved(NoErr, NilMap, "")
        ELSE Read(ReadFile(IF FilepathIsAbs(bodyFile) THEN bodyFile
                           ELSE FilepathJoin(baseDir, bodyFile)))

(***************************************************************************)
(* The directories on disk and collectFiles.                               *)
(***************************************************************************)
DirEntry(name, isDir) == [Name |-> name, IsDir |-> isDir]

\* The directories, each with its entries as os.ReadDir returns them, sorted
\* by name.  x/old.yaml and s/more are directories, s/more holds a workflow
\* file; locked cannot be listed.
Dirs ==
    [path \in {"w", "x", "o", "s", "s/more", "locked"} |->
        CASE path = "w" ->
                <<DirEntry("a.yaml", FALSE), DirEntry("b.yaml", FALSE), DirEntry("body.json", FALSE),
                  DirEntry("c.yaml", FALSE), DirEntry("d.yaml", FALSE), DirEntry("e.yaml", FALSE),
                  DirEntry("empty.json", FALSE), DirEntry("f.yaml", FALSE), DirEntry("g.yaml", FALSE)>>
          [] path = "x" ->
                <<DirEntry("a.yaml", FALSE), DirEntry("b.yml", FALSE), DirEntry("notes.txt", FALSE),
                  DirEntry("old.yaml", TRUE)>>
          [] path = "o" -> <<DirEntry("readme.md", FALSE)>>
          [] path = "s" ->
                <<DirEntry("more", TRUE), DirEntry("one.yml", FALSE), DirEntry("two.txt", FALSE)>>
          [] path = "s/more" -> <<DirEntry("deep.yaml", FALSE)>>
          [] path = "locked" -> <<>>]

\* os.Stat: Ret(info, err) with info.IsDir().
Stat(path) ==
    IF path \in DOMAIN Dirs THEN Ret([IsDir |-> TRUE], NoErr)
    ELSE IF path \in DOMAIN Disk \/ path = "w/d.yaml" THEN Ret([IsDir |-> FALSE], NoErr)
    ELSE Ret([IsDir |-> FALSE], Errorf("stat %s: no such file or directory", <<path>>))

\* os.ReadDir
ReadDir(path) ==
    IF path = "locked" THEN Ret(<<>>, Errorf("open %s: permission denied", <<path>>))
    ELSE Ret(Dirs[path], NoErr)

\* sort.Strings
RECURSIVE SortStrings(_)
SortStrings(list) ==
    LET Insert(x, sorted) ==
            LET At(before) ==
                    SubSeq(sorted, 1, Len(before)) \o <<x>> \o SubSeq(sorted, Len(before) + 1, Len(sorted))
            IN  At(SelectSeq(sorted, LAMBDA y : ~StrLess(x, y)))
    IN  IF Len(list) = 0 THEN <<>> ELSE Insert(Head(list), SortStrings(Tail(list)))

\* Faulty: every entry that is not a directory is taken, whatever its suffix.
RECURSIVE EveryFile(_, _)
EveryFile(path, entries) ==
    IF Len(entries) = 0 THEN <<>>
    ELSE (IF Head(entries).IsDir THEN <<>> ELSE <<FilepathJoin(path, Head(entries).Name)>>)
            \o EveryFile(path, Tail(entries))

\* The loop of collectFiles over the entries of a directory.
RECURSIVE WorkflowFiles(_, _)
WorkflowFiles(path, entries) ==
    LET e == Head(entries)
    IN  IF Len(entries) = 0 THEN <<>>
        ELSE IF e.IsDir THEN WorkflowFiles(path, Tail(entries))
        ELSE IF HasSuffix(e.Name, ".yaml") \/ HasSuffix(e.Name, ".yml")
        THEN <<FilepathJoin(path, e.Name)>> \o WorkflowFiles(path, Tail(entries))
        ELSE WorkflowFiles(path, Tail(entries))

\* collectFiles: Ret(files, err).
collectFiles(path) ==
    LET Listed(rd) ==
            IF rd.err # NoErr THEN Ret(<<>>, Wrap(rd.err, "unable to read dir " \o path))
            ELSE Ret(SortStrings(WorkflowFiles(path, rd.val)), NoErr)
        Statted(st) ==
            IF st.err # NoErr THEN Ret(<<>>, Wrap(st.err, "unable to access " \o path))
            ELSE IF ~st.val.IsDir THEN Ret(<<path>>, NoErr)
            ELSE Listed(ReadDir(path))
    IN  Statted(Stat(path))

\* Faulty: a path that cannot be collected is passed over.
RECURSIVE CollectSkipping(_)
CollectSkipping(ps) ==
    LET Rest(fs, rest) == [err |-> NoErr, files |-> fs.val \o rest.files]
    IN  IF Len(ps) = 0 THEN [err |-> NoErr, files |-> <<>>]
        ELSE Rest(collectFiles(Head(ps)), CollectSkipping(Tail(ps)))

\* The loop of RunPaths over its paths: [err, files], the files collected
\* when the loop ends or the error it returns with.
RECURSIVE CollectFrom(_, _)
CollectFrom(ps, acc) ==
    LET Collected(fs) ==
            IF fs.err # NoErr THEN [err |-> fs.err, files |-> acc]
            ELSE CollectFrom(Tail(ps), acc \o fs.val)
    IN  IF Len(ps) = 0 THEN [err |-> NoErr, files |-> acc] ELSE Collected(collectFiles(Head(ps)))

CollectAll(ps) == CollectFrom(ps, <<>>)

(***************************************************************************)
(* The state of one RunPaths call.                                         *)
(***************************************************************************)
MaxFiles == 2

\* The paths the file list is drawn from.
Paths == {"w/a.yaml", "w/b.yaml", "w/c.yaml", "w/d.yaml", "w/e.yaml", "w/f.yaml", "w/g.yaml"}

\* A sequence of length at most n over S, not empty.
SeqsUpTo(S, n) == UNION {[1..m -> S] : m \in 1..n}

\* How many path arguments a run is given at most.
MaxPaths == 2

\* What a path argument can be: a workflow file, a file of another suffix,
\* the directory x, the directory s with one workflow file beside a
\* subdirectory, the directory o that holds no workflow file, the directory
\* locked that cannot be listed, or a path that does not exist.
PathArgs == Paths \cup {"x/notes.txt", "x", "s", "o", "locked", "nowhere"}

\* The argument lists of the runs: none, or up to MaxPaths paths that resolve
\* to no more than MaxFiles files.
PathLists ==
    {<<>>} \cup {ps \in SeqsUpTo(PathArgs, MaxPaths) : Len(CollectAll(ps).files) <= MaxFiles}

VARIABLES
    paths,      \* RunPaths: the paths argument
    files,      \* RunPaths: the collected file list
    verbose,    \* Runner.verbose
    pcMain,     \* RunPaths: "collect", "spawn" (the go loop), "range" (the result loop), "done"
    spawned,    \* RunPaths: how many goroutines the go loop has started
    wg,         \* the WaitGroup counter
    closer,     \* the goroutine that waits and closes: "none", "wait", "closed"
    results,    \* the buffered channel's queue
    closed,     \* whether the channel is closed
    panicked,   \* whether a goroutine has panicked (a send on the closed channel)
    errsMain,   \* RunPaths: var errs []error
    stdout,     \* the lines printed, each with the task whose result held it
    consumed,   \* the tasks whose result the range loop has taken, in order
    ret,        \* RunPaths' return value: [returned, err]
    cmdRet,     \* runCmd.RunE's return value: [returned, err]
    pc,         \* per task: "idle", "run", "step", "await", "send", "sent", "done", "panic"
    logs,       \* runFile: var logs []string
    errs,       \* runFile: var errs []error
    prefix,     \* runFile: the prefix the log closure reads
    spec,       \* runFile: var spec InstructionsFile
    vars,       \* the variable stores, by store
    idx,        \* runFile: the index of the step the loop is at
    req,        \* executeStep: the request handed to client.Do
    trace,      \* per task, what it has done: [step, ev, info] records
    arg,        \* the input of one function applied on its own (ProbeSpec)
    res         \* and what it returned

vs == <<paths, files, verbose, pcMain, spawned, wg, closer, results, closed, panicked, errsMain, stdout,
        consumed, ret, cmdRet, pc, logs, errs, prefix, spec, vars, idx, req, trace, arg, res>>

Tasks == 1..Len(files)

NoRequest == [Method |-> "", URL |-> "", Header |-> NilMap, Body |-> NilMap]

\* The error RunPaths returns: nil, or errors.Join of a list.
NilError == [nil |-> TRUE, errs |-> <<>>]

\* Faulty: return errs[0].
JoinFirst(list) == [nil |-> FALSE, errs |-> <<list[1]>>]

Join(list) == [nil |-> FALSE, errs |-> list]

\* RunE has not returned.
NotReturned == [returned |-> FALSE, err |-> NoErr]

\* No function is applied on its own.
NoProbe == [kind |-> "none"]
NoResult == [done |-> FALSE]

Init ==
    /\ arg = NoProbe
    /\ res = NoResult
    /\ paths \in PathLists
    /\ files = <<>>
    /\ verbose \in BOOLEAN
    /\ pcMain = "collect"
    /\ spawned = 0
    /\ wg = 0
    /\ closer = "none"
    /\ results = <<>>
    /\ closed = FALSE
    /\ panicked = FALSE
    /\ errsMain = <<>>
    /\ stdout = <<>>
    /\ consumed = <<>>
    /\ ret = [returned |-> FALSE, err |-> NilError]
    /\ cmdRet = NotReturned
    /\ pc = [t \in Tasks |-> "idle"]
    /\ logs = [t \in Tasks |-> <<>>]
    /\ errs = [t \in Tasks |-> <<>>]
    /\ prefix = [t \in Tasks |-> ""]
    /\ spec = [t \in Tasks |-> ZeroInstructionsFile]
    /\ vars = [t \in Tasks |-> NilMap]
    /\ idx = [t \in Tasks |-> 0]
    /\ req = [t \in Tasks |-> NoRequest]
    /\ trace = [t \in Tasks |-> <<>>]

(***************************************************************************)
(* Pieces of runFile and RunPaths the actions share.  A piece that a       *)
(* property below rests on is preceded by a faulty variant of it, the slip *)
(* the property rules out.                                                 *)
(***************************************************************************)
\* make(chan result, len(files))
ChanCap == Len(files)

\* Faulty: one map shared by all runFile calls.
SharedStore(t) == 1

\* vars := map[string]string{...} inside runFile: every call makes its own map.
StoreOf(t) == t

\* The map literal runFile starts from.
InitialVars(doc) == Map1("base_url", doc.Config.BaseURL)

\* Faulty: executeStep works on a copy of the map, and what it stored is lost.
StoreDiscarded(before, after) == before

\* executeStep is handed the map itself, so what it stored is what the loop's
\* next iteration reads.
StoreAfterStep(before, after) == after

\* Faulty: break instead of continue, and a failed step tried again.
BreakOnFailure(k, n, failed) == IF failed THEN n + 1 ELSE k + 1

RetryOnFailure(k, n, failed) == IF failed THEN k ELSE k + 1

\* for _, step := range spec.Workflow: from step k of n the loop goes on to
\* the next step whether or not this one failed.
NextIndex(k, n, failed) == k + 1

\* Faulty: the error of a step is put in front of those of the steps before it.
RecordInFront(list, stepErr) == <<stepErr>> \o list

\* errs = append(errs, &StepError{...})
Record(list, stepErr) == Append(list, stepErr)

\* The log closure: fmt.Sprintf("[%s] %s", prefix, msg) for each message.
LogLines(pfx, msgs) == [i \in 1..Len(msgs) |-> "[" \o pfx \o "] " \o msgs[i]]

\* The lines of a result as printed, each marked with the task it came from.
Printed(t, lines) == [i \in 1..Len(lines) |-> [src |-> t, line |-> lines[i]]]

\* Faulty: the log closure prints the line itself.
LogDirect(t, pfx, msgs) ==
    /\ logs' = logs
    /\ stdout' = stdout \o Printed(t, LogLines(pfx, msgs))

\* log(...) appends to the logs slice of the runFile call; nothing is printed.
Log(t, pfx, msgs) ==
    /\ logs' = [logs EXCEPT ![t] = @ \o LogLines(pfx, msgs)]
    /\ stdout' = stdout

\* Faulty: errs = res.errs.
AggregateLast(all, resErrs) == IF Len(resErrs) > 0 THEN resErrs ELSE all

\* errs = append(errs, res.errs...) when the result has errors.
Aggregate(all, resErrs) == IF Len(resErrs) > 0 THEN all \o resErrs ELSE all

\* Faulty: the go loop without wg.Add(1).
AddNothing(counter) == counter

\* wg.Add(1)
Add(counter) == counter + 1

\* Faulty: close(results) without waiting.
WaitReturnsAtOnce(counter) == TRUE

\* wg.Wait() returns when the counter is zero.
WaitReturns(counter) == counter = 0

\* Faulty: the goroutine without its deferred wg.Done().
DoneForgotten(counter) == counter

\* wg.Done()
Done(counter) == counter - 1

Event(k, ev, info) == [step |-> k, ev |-> ev, info |-> info]

\* The pc after the loop index has moved to k.
LoopPc(doc, k) == IF k > Len(doc.Workflow) THEN "send" ELSE "step"

\* What the captures of step k wrote to the store, in order.
CaptureEvents(k, writes) == [i \in 1..Len(writes) |-> Event(k, "capture", writes[i])]

(***************************************************************************)
(* RunPaths: the go loop, the closing goroutine, the result loop.          *)
(***************************************************************************)
\* A non-nil error that is not a join: it has no members.
Plain(err) == [nil |-> FALSE, errs |-> <<>>, err |-> err]

\* RunPaths up to the go loop: the paths are checked and collected, and the
\* run ends here when there is none, when one cannot be collected, or when
\* no file was found.
Collect ==
    /\ pcMain = "collect"
    /\ LET Failed(err) ==
               /\ ret' = [returned |-> TRUE, err |-> Plain(err)]
               /\ pcMain' = "done"
               /\ UNCHANGED <<files, pc, logs, errs, prefix, spec, vars, idx, req, trace>>
           Started(list) ==
               /\ files' = list
               /\ pcMain' = "spawn"
               /\ ret' = ret
               /\ pc' = [t \in 1..Len(list) |-> "idle"]
               /\ logs' = [t \in 1..Len(list) |-> <<>>]
               /\ errs' = [t \in 1..Len(list) |-> <<>>]
               /\ prefix' = [t \in 1..Len(list) |-> ""]
               /\ spec' = [t \in 1..Len(list) |-> ZeroInstructionsFile]
               /\ vars' = [t \in 1..Len(list) |-> NilMap]
               /\ idx' = [t \in 1..Len(list) |-> 0]
               /\ req' = [t \in 1..Len(list) |-> NoRequest]
               /\ trace' = [t \in 1..Len(list) |-> <<>>]
           Collected(c) ==
               IF Len(paths) = 0 THEN Failed(Errorf("no paths provided", <<>>))
               ELSE IF c.err # NoErr THEN Failed(c.err)
               ELSE IF Len(c.files) = 0 THEN Failed(Errorf("no files found", <<>>))
               ELSE Started(c.files)
       IN  Collected(CollectAll(paths))
    /\ UNCHANGED <<arg, cmdRet, res, paths, verbose, spawned, wg, closer, results, closed, panicked,
                   errsMain, stdout, consumed>>

\* wg.Add(1); go func(f string) {...}(f)
Spawn ==
    /\ pcMain = "spawn"
    /\ spawned < Len(files)
    /\ spawned' = spawned + 1
    /\ wg' = Add(wg)
    /\ pc' = [pc EXCEPT ![spawned + 1] = "run"]
    /\ UNCHANGED <<arg, cmdRet, res, paths, files, verbose, pcMain, closer, results, closed, panicked, errsMain, stdout,
                   consumed, ret, logs, errs, prefix, spec, vars, idx, req, trace>>

\* go func() { wg.Wait(); close(results) }(), after the go loop
StartCloser ==
    /\ pcMain = "spawn"
    /\ spawned = Len(files)
    /\ pcMain' = "range"
    /\ closer' = "wait"
    /\ UNCHANGED <<arg, cmdRet, res, paths, files, verbose, spawned, wg, results, closed, panicked, errsMain, stdout,
                   consumed, ret, pc, logs, errs, prefix, spec, vars, idx, req, trace>>

\* wg.Wait() returns; close(results)
CloseResults ==
    /\ closer = "wait"
    /\ WaitReturns(wg)
    /\ closer' = "closed"
    /\ closed' = TRUE
    /\ UNCHANGED <<arg, cmdRet, res, paths, files, verbose, pcMain, spawned, wg, results, panicked, errsMain, stdout,
                   consumed, ret, pc, logs, errs, prefix, spec, vars, idx, req, trace>>

\* One iteration of for res := range results: print the logs, collect the errors.
Receive ==
    /\ pcMain = "range"
    /\ Len(results) > 0
    /\ stdout' = stdout \o Printed(Head(results).from, Head(results).logs)
    /\ errsMain' = Aggregate(errsMain, Head(results).errs)
    /\ consumed' = Append(consumed, Head(results).from)
    /\ results' = Tail(results)
    /\ UNCHANGED <<arg, cmdRet, res, paths, files, verbose, pcMain, spawned, wg, closer, closed, panicked, ret,
                   pc, logs, errs, prefix, spec, vars, idx, req, trace>>

\* The range loop ends on the closed, drained channel; RunPaths returns nil or
\* errors.Join(errs...).
Return ==
    /\ pcMain = "range"
    /\ Len(results) = 0
    /\ closed
    /\ pcMain' = "done"
    /\ ret' = [returned |-> TRUE, err |-> IF Len(errsMain) = 0 THEN NilError ELSE Join(errsMain)]
    /\ UNCHANGED <<arg, cmdRet, res, paths, files, verbose, spawned, wg, closer, results, closed, panicked, errsMain,
                   stdout, consumed, pc, logs, errs, prefix, spec, vars, idx, req, trace>>

(***************************************************************************)
(* The run command: runCmd.RunE around RunPaths, and the exit status.      *)
(***************************************************************************)
\* Faulty: the description and the error are printed whatever verbose is.
AlwaysVerbose(vb) == TRUE

\* if verbose { ... }
PrintsDetails(vb) == vb

\* e.(*runner.StepError): the errors runFile records for its steps.
IsStepError(e) == DOMAIN e = {"File", "Step", "Description", "Err"}

\* What RunE prints for one of the joined errors.
ErrorLines(e, vb) ==
    IF IsStepError(e)
    THEN <<Sprintf("Failed step: %s", <<e.Step>>)>>
            \o (IF PrintsDetails(vb)
                THEN <<Sprintf("Description: %s", <<e.Description>>),
                       Sprintf("Error: %v", <<ErrorString(e.Err)>>)>>
                ELSE <<>>)
    ELSE <<Sprintf("Error: %v", <<ErrorString(e)>>)>>

\* for _, e := range errs.Unwrap() { ... }
RECURSIVE FailureLines(_, _)
FailureLines(list, vb) ==
    IF Len(list) = 0 THEN <<>> ELSE ErrorLines(Head(list), vb) \o FailureLines(Tail(list), vb)

\* err.(interface{ Unwrap() []error }): the error is an errors.Join.
IsJoin(err) == ~err.nil /\ Len(err.errs) > 0

\* What RunE prints and returns for the error RunPaths returned.
RunEOutcome(err, vb) ==
    IF err.nil
    THEN [lines |-> <<"All steps were run successfully">>, err |-> NoErr]
    ELSE IF IsJoin(err)
    THEN [lines |-> FailureLines(err.errs, vb),
          err |-> Errorf("workflow failed with %d errors", <<Len(err.errs)>>)]
    ELSE [lines |-> <<>>, err |-> Errorf("run failed: %w", <<err.err>>)]

\* Lines printed by RunE itself carry no task.
MainSrc == 0

\* RunE from the return of RunPaths on; cobra.MinimumNArgs(1) lets it run
\* with one argument or more only.
RunE ==
    /\ pcMain = "done"
    /\ ret.returned
    /\ ~cmdRet.returned
    /\ Len(paths) >= 1
    /\ LET Outcome(o) ==
               /\ stdout' = stdout \o Printed(MainSrc, o.lines)
               /\ cmdRet' = [returned |-> TRUE, err |-> o.err]
       IN  Outcome(RunEOutcome(ret.err, verbose))
    /\ UNCHANGED <<arg, res, paths, files, verbose, pcMain, spawned, wg, closer, results, closed,
                   panicked, errsMain, consumed, ret, pc, logs, errs, prefix, spec, vars, idx, req,
                   trace>>

\* Execute: os.Exit(1) when the command returned an error.
ExitStatus(err) == IF err = NoErr THEN 0 ELSE 1

(***************************************************************************)
(* One goroutine: runFile, the send, the deferred wg.Done.                 *)
(***************************************************************************)
\* runFile up to the step loop: the first log line, ReadFile, yaml.Unmarshal,
\* the prefix, the variable store.
RunFileStart(t) ==
    /\ pc[t] = "run"
    /\ LET path == files[t]
           Failed(err) ==
               /\ errs' = [errs EXCEPT ![t] = <<err>>]
               /\ pc' = [pc EXCEPT ![t] = "send"]
               /\ UNCHANGED <<spec, vars, idx>>
           Loaded(doc) ==
               /\ errs' = [errs EXCEPT ![t] = <<>>]
               /\ spec' = [spec EXCEPT ![t] = doc]
               /\ vars' = [vars EXCEPT ![StoreOf(t)] = InitialVars(doc)]
               /\ idx' = [idx EXCEPT ![t] = 1]
               /\ pc' = [pc EXCEPT ![t] = LoopPc(doc, 1)]
           Read(base, rd) ==
               /\ Log(t, base, <<"Running workflow file: " \o path>>)
               /\ prefix' = [prefix EXCEPT ![t] =
                               IF /\ rd.err = NoErr
                                  /\ rd.val.yaml.err = NoErr
                                  /\ rd.val.yaml.val.Metadata.Name # ""
                               THEN rd.val.yaml.val.Metadata.Name ELSE base]
               /\ IF rd.err # NoErr THEN Failed(Wrap(rd.err, "read " \o path))
                  ELSE IF rd.val.yaml.err # NoErr
                  THEN Failed(Wrap(rd.val.yaml.err, "parse " \o path))
                  ELSE Loaded(rd.val.yaml.val)
       IN  Read(FilepathBase(path), ReadFile(path))
    /\ UNCHANGED <<arg, cmdRet, res, paths, files, verbose, pcMain, spawned, wg, closer, results, closed, panicked,
                   errsMain, consumed, ret, req, trace>>

\* One loop iteration up to client.Do: resolveBodyFile, then the first half of
\* executeStep.  A failure here ends the step with a StepError.
StepBegin(t) ==
    /\ pc[t] = "step"
    /\ LET k == idx[t]
           step == spec[t].Workflow[k]
           Failed(err) ==
               /\ errs' = [errs EXCEPT ![t] =
                             Record(@, StepError(files[t], step.Step, step.Description, err))]
               /\ idx' = [idx EXCEPT ![t] = NextIndex(k, Len(spec[t].Workflow), TRUE)]
               /\ pc' = [pc EXCEPT ![t] = LoopPc(spec[t], NextIndex(k, Len(spec[t].Workflow), TRUE))]
               /\ req' = req
               /\ trace' = [trace EXCEPT ![t] =
                              @ \o <<Event(k, "begin", <<>>), Event(k, "end", err)>>]
           Sending(request) ==
               /\ errs' = errs
               /\ idx' = idx
               /\ pc' = [pc EXCEPT ![t] = "await"]
               /\ req' = [req EXCEPT ![t] = request]
               /\ trace' = [trace EXCEPT ![t] =
                              @ \o <<Event(k, "begin", <<>>), Event(k, "request", request)>>]
           Built(rb, br) ==
               /\ Log(t, prefix[t], IF rb.err # NoErr THEN <<>> ELSE br.logs)
               /\ spec' = IF rb.bodySource = "inline"
                          THEN [spec EXCEPT ![t].Workflow[k].Request.Body =
                                            ArgumentAfter(JObj(rb.bodyData), vars[StoreOf(t)]).v]
                          ELSE spec
               /\ IF rb.err # NoErr THEN Failed(Errorf("resolve body file: %w", <<rb.err>>))
                  ELSE IF br.err # NoErr THEN Failed(br.err)
                  ELSE Sending(br.req)
           Resolved(rb) ==
               Built(rb, BuildRequest(step, rb.bodyData, rb.bodySource, vars[StoreOf(t)], verbose))
       IN  Resolved(resolveBodyFile(step, FilepathDir(files[t])))
    /\ UNCHANGED <<arg, cmdRet, res, paths, files, verbose, pcMain, spawned, wg, closer, results, closed, panicked,
                   errsMain, consumed, ret, prefix, vars>>

\* client.Do returns and executeStep runs to its end: the checks, the
\* captures, the output line; then the loop moves on.
StepEnd(t) ==
    /\ pc[t] = "await"
    /\ LET k == idx[t]
           step == spec[t].Workflow[k]
           Ended(out) ==
               /\ Log(t, prefix[t], out.logs)
               /\ vars' = [vars EXCEPT ![StoreOf(t)] = StoreAfterStep(@, out.vars)]
               /\ errs' = [errs EXCEPT ![t] =
                             IF out.err # NoErr
                             THEN Record(@, StepError(files[t], step.Step, step.Description, out.err))
                             ELSE @]
               /\ idx' = [idx EXCEPT ![t] = NextIndex(k, Len(spec[t].Workflow), out.err # NoErr)]
               /\ pc' = [pc EXCEPT ![t] = LoopPc(spec[t], NextIndex(k, Len(spec[t].Workflow), out.err # NoErr))]
               /\ trace' = [trace EXCEPT ![t] =
                              @ \o CaptureEvents(k, out.writes) \o <<Event(k, "end", out.err)>>]
       IN  Ended(HandleResponse(step, ClientDo(req[t]), vars[StoreOf(t)], verbose))
    /\ req' = [req EXCEPT ![t] = NoRequest]
    /\ UNCHANGED <<arg, cmdRet, res, paths, files, verbose, pcMain, spawned, wg, closer, results, closed, panicked,
                   errsMain, consumed, ret, prefix, spec>>

\* results <- result{logs: logs, errs: errs}: blocks while the buffer is full,
\* panics when the channel is closed.
Send(t) ==
    /\ pc[t] = "send"
    /\ closed \/ Len(results) < ChanCap
    /\ IF closed
       THEN /\ panicked' = TRUE
            /\ pc' = [pc EXCEPT ![t] = "panic"]
            /\ results' = results
       ELSE /\ results' = Append(results, [logs |-> logs[t], errs |-> errs[t], from |-> t])
            /\ pc' = [pc EXCEPT ![t] = "sent"]
            /\ panicked' = panicked
    /\ UNCHANGED <<arg, cmdRet, res, paths, files, verbose, pcMain, spawned, wg, closer, closed, errsMain, stdout,
                   consumed, ret, logs, errs, prefix, spec, vars, idx, req, trace>>

\* defer wg.Done()
TaskDone(t) ==
    /\ pc[t] = "sent"
    /\ wg' = Done(wg)
    /\ pc' = [pc EXCEPT ![t] = "done"]
    /\ UNCHANGED <<arg, cmdRet, res, paths, files, verbose, pcMain, spawned, closer, results, closed, panicked, errsMain,
                   stdout, consumed, ret, logs, errs, prefix, spec, vars, idx, req, trace>>

Task(t) == RunFileStart(t) \/ StepBegin(t) \/ StepEnd(t) \/ Send(t) \/ TaskDone(t)

Main == Collect \/ Spawn \/ StartCloser \/ Receive \/ Return

Next == Main \/ CloseResults \/ RunE \/ \E t \in Tasks : Task(t)

Spec == Init /\ [][Next]_vs

\* Goroutine t of the go statement is scheduled: it is started, has not
\* returned and is not blocked at its send, and its position moves.  Every
\* step of Task(t) moves pc[t] or idx[t] and no other step does while t can
\* run, so this is a step of Task(t), told by where it leads alone.
Runs(t) ==
    /\ t \in Tasks
    /\ \/ pc[t] \in {"run", "step", "await", "sent"}
       \/ pc[t] = "send" /\ (closed \/ Len(results) < ChanCap)
    /\ \E p \in {"step", "await", "send", "sent", "done", "panic"}, k \in {idx[t], idx[t] + 1} :
            /\ <<p, k>> # <<pc[t], idx[t]>>
            /\ pc' = [pc EXCEPT ![t] = p]
            /\ idx' = [idx EXCEPT ![t] = k]

\* The Go scheduler runs every goroutine that can run, and every request
\* returns or times out.
FairSpec ==
    /\ Spec
    /\ WF_vs(Main)
    /\ WF_vs(CloseResults)
    /\ \A t \in 1..MaxFiles : WF_<<pc, idx>>(Runs(t))

(***************************************************************************)
(* The functions of a step applied on their own: applyVars,                *)
(* applyVarsToInterface, and executeStep from the response on, each on     *)
(* inputs drawn from small sets.  RunPaths is not running.                 *)
(***************************************************************************)
\* The variable store of the probes.
ProbeStore == Map2("base_url", "http://s", "v", "abc")

\* The response of the probes: a status, two headers, a JSON object.
ProbeResponse(status) ==
    Response(status, Map2("X-Token", "Bearer abc", "X-Num", "n42x"), "{\"id\":\"7\"}",
             Ret(JObj(Map1("id", JStr("7"))), NoErr))

\* A step with the given expectations and captures.
ProbeStep(expect, capture) ==
    Step("probe", "", StepRequest("GET", "/p", NilMap, NilMap, "", NilMap), expect, capture,
         "out ${v}")

\* Steps that differ in the status they expect, against each status.
StatusProbes ==
    {[kind |-> "step", step |-> ProbeStep(StepExpect(s, <<>>, <<>>), <<>>),
      resp |-> ProbeResponse(a), verbose |-> vb] :
        s \in {NoStatus, 200, 404}, a \in {200, 404, 500}, vb \in BOOLEAN}

\* Steps with one header expectation: blank, padded, present and absent names;
\* neither, one or both of value and contains, matching or not.
HeaderProbes ==
    {[kind |-> "step",
      step |-> ProbeStep(StepExpect(NoStatus, <<>>, <<HeaderExpectation(n, v, c)>>), <<>>),
      resp |-> ProbeResponse(200), verbose |-> vb] :
        n \in {"", "  ", "X-Token", " x-token ", "X-Missing"},
        v \in {"", "Bearer abc", "Bearer ${v}", "nope"},
        c \in {"", "abc", "${v}", "zzz"},
        vb \in BOOLEAN}

\* One capture: each combination of sources, with and without a pattern.
ProbeCaptures ==
    {Capture(j, h, re, as) :
        j \in {"", "id", "nope"}, h \in {"", "X-Token", "X-Num", "X-Missing"},
        re \in {"", "Bearer (.*)", "[0-9]+", "(", "zzz", "Bearer"}, as \in {"a"}}

\* Captures that meet in one step: two of them share a destination, one
\* overwrites a variable the output line uses, one has no source.
PairedCaptures ==
    {Capture("id", "", "", "a"), Capture("", "X-Token", "Bearer (.*)", "a"),
     Capture("", "", "", "b"), Capture("", "X-Num", "[0-9]+", "v")}

CaptureProbes ==
    {[kind |-> "step", step |-> ProbeStep(StepExpect(NoStatus, <<>>, <<>>), caps),
      resp |-> ProbeResponse(200), verbose |-> vb] :
        caps \in {<<c>> : c \in ProbeCaptures}
                    \cup {<<c, d>> : c \in PairedCaptures, d \in PairedCaptures},
        vb \in BOOLEAN}

\* A response with no body: json.Unmarshal would reject the empty text.
EmptyResponse == Response(200, NilMap, "", Ret(JNil, Errorf("unexpected end of JSON input", <<>>)))

\* A response whose body holds a number, the same text as a string, another
\* string and a boolean.
ValuesResponse ==
    Response(200, NilMap, "{\"n\":30,\"s\":\"30\",\"t\":\"abc\",\"b\":true}",
             Ret(JObj([k \in {"n", "s", "t", "b"} |->
                        CASE k = "n" -> JNum(30) [] k = "s" -> JStr("30")
                          [] k = "t" -> JStr("abc") [] OTHER -> JBool(TRUE)]), NoErr))

\* Queries against those bodies, and declared values.
MatcherPaths == {"", "$", "$.", "n", "$.s", "t", "b", "missing", "n.x", "[0]", "$[0]", "$[-1]",
                 "$[?(@.id==2)]"}

MatcherValues ==
    {JStr("30"), JNum(30), JStr("abc"), JStr("${v}"), JStr("true"), JBool(TRUE), JStr("31"),
     JStr("<nil>")}

\* Steps with one path expectation, or one json_path capture.
PathStepProbes ==
    {[kind |-> "step", step |-> ProbeStep(StepExpect(NoStatus, <<JSONPathVal(q, x)>>, <<>>), <<>>),
      resp |-> r, verbose |-> vb] :
        q \in MatcherPaths, x \in MatcherValues, r \in {EmptyResponse, ValuesResponse},
        vb \in BOOLEAN}
    \cup
    {[kind |-> "step",
      step |-> ProbeStep(StepExpect(NoStatus, <<>>, <<>>), <<Capture(q, "", "", "a")>>),
      resp |-> r, verbose |-> vb] :
        q \in MatcherPaths \ {""}, r \in {EmptyResponse, ValuesResponse}, vb \in BOOLEAN}

\* Responses by body, the header X-Tpl a placeholder: the JSON object, text that is no JSON, no body, and a
\* body whose read fails.
StageResponse(status, body) ==
    LET headers == [n \in {"X-Token", "X-Num", "X-Tpl"} |->
                        CASE n = "X-Token" -> "Bearer abc" [] n = "X-Num" -> "n42x"
                          [] OTHER -> "${base_url}"]
    IN  CASE body = "json" -> Response(status, headers, "{\"id\":\"7\"}",
                                       Ret(JObj(Map1("id", JStr("7"))), NoErr))
          [] body = "text" -> Response(status, headers, "xx", NotJSON)
          [] body = "empty" -> Response(status, headers, "",
                                        Ret(JNil, Errorf("unexpected end of JSON input", <<>>)))
          [] OTHER -> [Response(status, headers, "{\"id\":\"7\"}",
                                Ret(JObj(Map1("id", JStr("7"))), NoErr))
                        EXCEPT !.Body.readErr = Errorf("unexpected EOF", <<>>)]

\* Capture lists: none, one that overwrites the variable of the output line,
\* one that stores and one that has no source, one that stores and one whose
\* query fails, one of a header only, one of a header whose value is a
\* placeholder.
StageCaptures ==
    {<<>>,
     <<Capture("id", "", "", "v")>>,
     <<Capture("id", "", "", "v"), Capture("", "", "", "b")>>,
     <<Capture("", "X-Num", "[0-9]+", "v"), Capture("id.x", "", "", "c"),
       Capture("id", "", "", "d")>>,
     <<Capture("", "X-Token", "", "h")>>,
     <<Capture("", "X-Tpl", "", "v")>>}

\* Steps that can pass or fail at each stage: the request, the status, a
\* header expectation, the body, a path expectation, the captures.
StageProbes ==
    {[kind |-> "stage",
      step |-> [ProbeStep(StepExpect(s, ms, hs), caps) EXCEPT !.Output.print = o],
      resp |-> StageResponse(a, body), doErr |-> e, verbose |-> vb] :
        s \in {NoStatus, 200}, a \in {200, 500},
        hs \in {<<>>, <<HeaderExpectation("X-Token", "Bearer abc", "")>>,
                <<HeaderExpectation("X-Token", "nope", "")>>},
        body \in {"json", "text", "empty", "unread"},
        ms \in {<<>>, <<JSONPathVal("id", JStr("7"))>>, <<JSONPathVal("id", JStr("8"))>>},
        caps \in StageCaptures,
        o \in {"out ${v}", ""},
        e \in {NoErr, Errorf("dial tcp: connection refused", <<>>)},
        vb \in BOOLEAN}

\* client.Do has returned the response of the probe.
Answered(probes) == {p @@ [doErr |-> NoErr] : p \in probes}

StepProbes ==
    Answered(StatusProbes \cup HeaderProbes \cup CaptureProbes \cup PathStepProbes)
        \cup StageProbes

\* Strings with no, one and several placeholders, with unknown keys, with
\* text that only resembles a placeholder, and with one placeholder inside
\* another.
ProbeStrings ==
    {"", "plain", "${a}", "${b}", "${zz}", "${}", "${a", "a}", "$a", "{a}", "$${a}", "${a}}",
     "x${a}y${b}z", "${a}${a}", "${a${b}", "${ a }", "${zz}-${a}", "${}${a}", "}${b}{"}

\* Stores: empty, one key, a value that is itself a placeholder, an empty value.
ProbeStores ==
    {NilMap, Map1("a", "1"), Map2("a", "${b}", "b", "2"), Map2("a", "", "b", "x${a}"),
     Map2("a${b", "n", "b", "2")}

VarsProbes == {[kind |-> "vars", input |-> s, vars |-> V] : s \in ProbeStrings, V \in ProbeStores}

\* Bodies: a string, values of the other kinds, and maps and sequences
\* nested in each other.
ProbeValues ==
    {JNil, JNum(7), JBool(TRUE), JStr("id ${a}"), JStr("plain"),
     JArr(<<>>), JArr(<<JStr("${a}"), JNum(1), JStr("${zz}")>>),
     JObj(Map1("id", JStr("${a}"))), JObj(Map2("${a}", JStr("${b}"), "n", JNum(2))),
     JObj(Map2("id", JStr("${a}"), "tags", JArr(<<JStr("t-${b}"), JObj(Map1("k", JStr("${a}")))>>))),
     JArr(<<JArr(<<JStr("${b}")>>), JObj(Map1("plain", JStr("text")))>>)}

BodyProbes == {[kind |-> "body", val |-> x, vars |-> V] : x \in ProbeValues, V \in ProbeStores}

\* Decoded response bodies: the list of TestJsonPathMatching with a repeated
\* id, an element that is no object and one without an id; the empty list; a
\* one-element list; an object with a list in it; a string; and nil, the
\* value of an empty body.
ProbeBodies ==
    {JArr(<<JObj(Map2("id", JNum(1), "title", JStr("A"))),
            JObj(Map2("id", JNum(2), "title", JStr("B"))),
            JStr("id"),
            JObj(Map2("id", JStr("2"), "title", JStr("C"))),
            JObj(Map1("title", JStr("D")))>>),
     JArr(<<>>),
     JArr(<<JObj(Map1("name", JStr("X")))>>),
     JObj(Map2("name", JStr("X"), "items", JArr(<<JObj(Map2("k", JStr("v"), "n", JNum(30))), JNum(5)>>))),
     JStr("text"),
     JNil}

\* Queries of the three forms, well and ill formed.
ProbePaths ==
    {"", "  ", "$", "$.",
     "$[?(@.id==2)].title", "$[?(@.id==2)]", "$[?(@.id==9)]", "$[?(@.id=='2')].title",
     "$[?(@.id==<nil>)]", "$[?(@.id==2)].title.x",
     "$[0]", "$[0].name", "$[1]", "$[1].title", "$[5]", " $[0].name ", "$[-1]",
     "name", "$.name", "items[0].k", "items[0].n", "items[1]", "items[2]", "items[-1]",
     "items[x]", "items[]", "name.x", "name[0]", "[0]", "$.items[0]", "missing", "missing.x",
     "name[-1]", "$.missing", "items[0].zz", "missing[0]"}

PathProbes == {[kind |-> "path", obj |-> o, path |-> q] : o \in ProbeBodies, q \in ProbePaths}

\* A step that only declares a request, in a document of the directory w.
RequestStep(request) == Step("probe", "", request, StepExpect(NoStatus, <<>>, <<>>), <<>>, "")

\* Requests with and without an inline body and a body_file: the file of
\* TestBodyFileWithVariables, a file that holds {}, a file that is missing.
BodyRequestProbes ==
    {[kind |-> "request", step |-> RequestStep(StepRequest("POST", "/p", NilMap, b, f, NilMap)),
      vars |-> Map2("base_url", "http://s", "tok", "abc"), verbose |-> vb] :
        b \in {NilMap, Map1("name", JStr("in-${tok}"))},
        f \in {"", "body.json", "empty.json", "missing.json"},
        vb \in BOOLEAN}

\* Requests by URL, base_url and params.
URLRequestProbes ==
    {[kind |-> "request", step |-> RequestStep(StepRequest("GET", u, NilMap, NilMap, "", ps)),
      vars |-> Map2("base_url", base, "u", "/sub"), verbose |-> FALSE] :
        u \in {"/p", "p", "//p", "", "/", "/p?a=1", "p?a=1&q=0", "${u}/p", "http://o/p",
                "https://o/p?a=1", "httpx"},
        base \in {"", "http://s", "http://s/", "http://s//", "s"},
        ps \in {NilMap, Map1("q", "1"), Map2("q", "${u}", "b", "x y")}}

RequestProbes == BodyRequestProbes \cup URLRequestProbes

ProbeArgs == StepProbes \cup VarsProbes \cup BodyProbes \cup PathProbes \cup RequestProbes

\* The state of a RunPaths that was never called.
NotRunning ==
    /\ paths = <<>>
    /\ files = <<>>
    /\ verbose = FALSE
    /\ pcMain = "none"
    /\ spawned = 0
    /\ wg = 0
    /\ closer = "none"
    /\ results = <<>>
    /\ closed = FALSE
    /\ panicked = FALSE
    /\ errsMain = <<>>
    /\ stdout = <<>>
    /\ consumed = <<>>
    /\ ret = [returned |-> FALSE, err |-> NilError]
    /\ cmdRet = NotReturned
    /\ pc = <<>>
    /\ logs = <<>>
    /\ errs = <<>>
    /\ prefix = <<>>
    /\ spec = <<>>
    /\ vars = <<>>
    /\ idx = <<>>
    /\ req = <<>>
    /\ trace = <<>>

ProbeInit ==
    /\ arg \in ProbeArgs
    /\ res = NoResult
    /\ NotRunning

\* executeStep from the return of client.Do on, for the probe's step and
\* response.
ExecuteProbe ==
    /\ arg.kind \in {"step", "stage"}
    /\ ~res.done
    /\ res' = [done |-> TRUE,
               out |-> HandleResponse(arg.step, Ret(arg.resp, arg.doErr), ProbeStore, arg.verbose)]
    /\ UNCHANGED <<arg, cmdRet, paths, files, verbose, pcMain, spawned, wg, closer, results, closed,
                   panicked, errsMain, stdout, consumed, ret, pc, logs, errs, prefix, spec, vars,
                   idx, req, trace>>

\* applyVars(input, vars)
ApplyVarsProbe ==
    /\ arg.kind = "vars"
    /\ ~res.done
    /\ res' = [done |-> TRUE, out |-> applyVars(arg.input, arg.vars), vars |-> arg.vars]
    /\ UNCHANGED <<arg, cmdRet, paths, files, verbose, pcMain, spawned, wg, closer, results, closed,
                   panicked, errsMain, stdout, consumed, ret, pc, logs, errs, prefix, spec, vars,
                   idx, req, trace>>

\* body := applyVarsToInterface(val, vars); val is what the caller's value
\* holds afterwards.
ApplyVarsToInterfaceProbe ==
    /\ arg.kind = "body"
    /\ ~res.done
    /\ res' = [done |-> TRUE, out |-> applyVarsToInterface(arg.val, arg.vars),
               val |-> ArgumentAfter(arg.val, arg.vars), vars |-> arg.vars]
    /\ UNCHANGED <<arg, cmdRet, paths, files, verbose, pcMain, spawned, wg, closer, results, closed,
                   panicked, errsMain, stdout, consumed, ret, pc, logs, errs, prefix, spec, vars,
                   idx, req, trace>>

\* resolveBodyFile and executeStep up to client.Do, for a step of a document
\* in the directory w: the request built, or the error.
BuildRequestProbe ==
    /\ arg.kind = "request"
    /\ ~res.done
    /\ LET Resolved(rb) ==
            IF rb.err # NoErr
            THEN [err |-> Errorf("resolve body file: %w", <<rb.err>>), req |-> NoRequest,
                  logs |-> <<>>, bodySource |-> ""]
            ELSE [bodySource |-> rb.bodySource]
                    @@ BuildRequest(arg.step, rb.bodyData, rb.bodySource, arg.vars, arg.verbose)
       IN  res' = [done |-> TRUE, out |-> Resolved(resolveBodyFile(arg.step, "w"))]
    /\ UNCHANGED <<arg, cmdRet, paths, files, verbose, pcMain, spawned, wg, closer, results, closed,
                   panicked, errsMain, stdout, consumed, ret, pc, logs, errs, prefix, spec, vars,
                   idx, req, trace>>

\* evalJSONPath(obj, path)
EvalJSONPathProbe ==
    /\ arg.kind = "path"
    /\ ~res.done
    /\ res' = [done |-> TRUE, out |-> evalJSONPath(arg.obj, arg.path)]
    /\ UNCHANGED <<arg, cmdRet, paths, files, verbose, pcMain, spawned, wg, closer, results, closed,
                   panicked, errsMain, stdout, consumed, ret, pc, logs, errs, prefix, spec, vars,
                   idx, req, trace>>

ProbeNext ==
    \/ ExecuteProbe
    \/ ApplyVarsProbe
    \/ ApplyVarsToInterfaceProbe
    \/ EvalJSONPathProbe
    \/ BuildRequestProbe

ProbeSpec == ProbeInit /\ [][ProbeNext]_vs

(***************************************************************************)
(* runFile as one sequential function of the path: what a document run on  *)
(* its own returns, [logs, errs].                                          *)
(***************************************************************************)
RECURSIVE RunSteps(_, _, _, _, _, _)
RunSteps(path, pfx, steps, store, vb, acc) ==
    LET step == Head(steps)
        Failed(msgs, err) ==
            RunSteps(path, pfx, Tail(steps), store, vb,
                     [logs |-> acc.logs \o LogLines(pfx, msgs),
                      errs |-> Append(acc.errs, StepError(path, step.Step, step.Description, err))])
        Ended(msgs, out) ==
            RunSteps(path, pfx, Tail(steps), out.vars, vb,
                     [logs |-> acc.logs \o LogLines(pfx, msgs \o out.logs),
                      errs |-> IF out.err # NoErr
                               THEN Append(acc.errs,
                                           StepError(path, step.Step, step.Description, out.err))
                               ELSE acc.errs])
        Built(rb, br) ==
            IF rb.err # NoErr THEN Failed(<<>>, Errorf("resolve body file: %w", <<rb.err>>))
            ELSE IF br.err # NoErr THEN Failed(br.logs, br.err)
            ELSE Ended(br.logs, HandleResponse(step, ClientDo(br.req), store, vb))
        Resolved(rb) == Built(rb, BuildRequest(step, rb.bodyData, rb.bodySource, store, vb))
    IN  IF Len(steps) = 0 THEN acc ELSE Resolved(resolveBodyFile(step, FilepathDir(path)))

runFile(path, vb) ==
    LET Start(base, first) ==
            LET Loaded(doc) ==
                    RunSteps(path, IF doc.Metadata.Name # "" THEN doc.Metadata.Name ELSE base,
                             doc.Workflow, InitialVars(doc), vb, [logs |-> first, errs |-> <<>>])
                Read(rd) ==
                    IF rd.err # NoErr
                    THEN [logs |-> first, errs |-> <<Wrap(rd.err, "read " \o path)>>]
                    ELSE IF rd.val.yaml.err # NoErr
                    THEN [logs |-> first, errs |-> <<Wrap(rd.val.yaml.err, "parse " \o path)>>]
                    ELSE Loaded(rd.val.yaml.val)
            IN  Read(ReadFile(path))
        Base(base) == Start(base, LogLines(base, <<"Running workflow file: " \o path>>))
    IN  Base(FilepathBase(path))

(***************************************************************************)
(* What the properties below read off a state.                             *)
(***************************************************************************)
\* runFile has returned in task t.
Finished(t) == pc[t] \in {"send", "sent", "done"}

\* The file of task t was read and parsed, and the document it holds.
DocLoaded(t) ==
    LET Ok(rd) == rd.err = NoErr /\ rd.val.yaml.err = NoErr
    IN  Ok(ReadFile(files[t]))

DocOf(t) == ReadFile(files[t]).val.yaml.val

IsEnd(e) == e.ev = "end"
IsFailedEnd(e) == e.ev = "end" /\ e.info # NoErr
IsRequest(e) == e.ev = "request"
IsStepEvent(e) == e.ev \in {"begin", "request", "end"}

\* The begin, request and end events of task t, and its failed steps.
StepEvents(t) == SelectSeq(trace[t], IsStepEvent)
FailedEnds(t) == SelectSeq(trace[t], IsFailedEnd)

\* The store a document's captures build, replayed from the trace: the seed,
\* then every capture in order, a later one overwriting an earlier one.
RECURSIVE Replay(_, _)
Replay(store, events) ==
    IF Len(events) = 0 THEN store
    ELSE Replay(IF Head(events).ev = "capture"
                THEN VarSet(store, Head(events).info[1], Head(events).info[2])
                ELSE store,
                Tail(events))

StoreFromTrace(t) == Replay(InitialVars(DocOf(t)), trace[t])

\* The errors and the printed lines of the tasks in the given order.
RECURSIVE FlattenErrs(_)
FlattenErrs(order) ==
    IF Len(order) = 0 THEN <<>> ELSE errs[Head(order)] \o FlattenErrs(Tail(order))

RECURSIVE SoloErrs(_)
SoloErrs(order) ==
    IF Len(order) = 0 THEN <<>>
    ELSE runFile(files[Head(order)], verbose).errs \o SoloErrs(Tail(order))

RECURSIVE SoloOutput(_)
SoloOutput(order) ==
    IF Len(order) = 0 THEN <<>>
    ELSE Printed(Head(order), runFile(files[Head(order)], verbose).logs) \o SoloOutput(Tail(order))

\* What RunPaths printed: the output without the lines of the run command.
RunPathsOutput ==
    LET OfTask(l) == l.src # MainSrc
    IN  SelectSeq(stdout, OfTask)

ConsumedSet == {consumed[i] : i \in 1..Len(consumed)}

\* Every task's result has been consumed, each once.
ConsumedAll == Len(consumed) = Len(files) /\ ConsumedSet = Tasks

\* The positions of task t's lines in the output.
Positions(t) == {i \in 1..Len(stdout) : stdout[i].src = t}

HasLine(t, line) == \E i \in 1..Len(logs[t]) : logs[t][i] = line

\* The request step k of task t sent, if it sent one.
SentRequest(t, k, P(_)) ==
    \E i \in 1..Len(trace[t]) :
        trace[t][i].ev = "request" /\ trace[t][i].step = k /\ P(trace[t][i].info)

(***************************************************************************)
(* Properties.                                                             *)
(***************************************************************************)
\* The StepErrors the failed steps of task t call for, in step order.
StepErrorsOf(t) ==
    LET Of(doc, failed) ==
            [i \in 1..Len(failed) |->
                StepError(files[t], doc.Workflow[failed[i].step].Step,
                          doc.Workflow[failed[i].step].Description, failed[i].info)]
    IN  Of(DocOf(t), FailedEnds(t))

EndsOf(t, k) == {i \in 1..Len(trace[t]) : trace[t][i].ev = "end" /\ trace[t][i].step = k}

\* C1: a failed step never stops its document.  While a loaded document runs,
\* its error list holds exactly one StepError (file, step id, description,
\* cause) for each step that has failed, in order, and none for a step that
\* passed; when runFile has returned, every step of the document has ended
\* exactly once, the steps after a failed one included.
C1_FailureNeverStopsDocument ==
    \A t \in Tasks :
        DocLoaded(t) /\ pc[t] \notin {"idle", "run"} =>
            /\ errs[t] = StepErrorsOf(t)
            /\ Finished(t) =>
                    \A k \in 1..Len(DocOf(t).Workflow) : Cardinality(EndsOf(t, k)) = 1

\* A document has finished in which a request was sent after a step failed.
C1_Witness ==
    \E t \in Tasks :
        /\ pc[t] = "done"
        /\ \E i, j \in 1..Len(trace[t]) :
                i < j /\ IsFailedEnd(trace[t][i]) /\ IsRequest(trace[t][j])

RECURSIVE TotalErrs(_)
TotalErrs(n) == IF n = 0 THEN 0 ELSE Len(errs[n]) + TotalErrs(n - 1)

\* C2: when RunPaths has returned from a run over one or more files, every
\* result was consumed once; the error
\* is nil exactly when no document has an error, and otherwise its members
\* are the documents' error lists, each whole and once (in the order the
\* results were consumed), so their number is the sum of the lists' lengths.
C2_JoinedErrorIsUnion ==
    ret.returned /\ Len(files) > 0 =>
        /\ ConsumedAll
        /\ (ret.err.nil <=> \A t \in Tasks : Len(errs[t]) = 0)
        /\ ret.err.errs = FlattenErrs(consumed)
        /\ Len(ret.err.errs) = TotalErrs(Len(files))

\* RunPaths has returned the errors of two documents that both failed.
C2_Witness ==
    /\ ret.returned
    /\ ~ret.err.nil
    /\ Len(files) = 2
    /\ Len(errs[1]) > 0
    /\ Len(errs[2]) > 0

\* C3: the variable store of a runFile call does not exist before the call
\* starts, is seeded with the base_url of its own document only, and is
\* changed only by the captures of its own steps, whatever the other
\* documents capture meanwhile: a document that captures nothing never sees
\* a value for ${i}, though a document running beside it has captured i.
C3_StoresAreIsolated ==
    \A t \in Tasks :
        /\ pc[t] \in {"idle", "run"} => DOMAIN vars[t] = {}
        /\ pc[t] \notin {"idle", "run"} =>
                vars[t] = IF DocLoaded(t) THEN StoreFromTrace(t) ELSE NilMap
        /\ files[t] = "w/b.yaml" /\ pc[t] = "done" => HasLine(t, "[b.yaml] i=${i}")

\* One document has captured i, and b.yaml beside it has finished without it.
C3_Witness ==
    \E t1, t2 \in Tasks :
        /\ t1 # t2
        /\ "i" \in DOMAIN vars[t1]
        /\ files[t2] = "w/b.yaml"
        /\ pc[t2] = "done"
        /\ "i" \notin DOMAIN vars[t2]

\* C4 as stated: no result is consumed until every task has signalled
\* completion (its wg.Done).
C4_AsStated == Len(consumed) > 0 => \A t \in Tasks : pc[t] = "done"

\* C4: the range loop consumes a result as soon as it is sent, while other
\* tasks may still run; what waits for every task's completion is the close
\* of the channel, and with it the end of the loop and the return.  A result
\* that is consumed comes from a task whose runFile has returned.
C4_BarrierGatesCloseOnly ==
    /\ \A i \in 1..Len(consumed) : pc[consumed[i]] \in {"sent", "done"}
    /\ closed => \A t \in Tasks : pc[t] = "done"
    /\ ret.returned /\ Len(files) > 0 => closed /\ Len(results) = 0 /\ ConsumedAll
    /\ Len(errsMain) > 0 \/ Len(stdout) > 0 => Len(consumed) > 0

\* A result has been consumed while another task is still running its steps.
C4_Witness ==
    /\ Len(consumed) > 0
    /\ ~closed
    /\ \E t \in Tasks : pc[t] \in {"step", "await"}

\* How many results task t has put on the channel.
SendsOf(t) ==
    Cardinality({i \in 1..Len(results) : results[i].from = t})
        + Cardinality({i \in 1..Len(consumed) : consumed[i] = t})

\* C5: one task is started per file and no more; a task has sent one result
\* once it is past its send and none before; the channel never holds more
\* than N results and a task at its send always finds room; the channel is
\* closed only when every task has sent, and no send meets a closed channel.
C5_OneSendEachNeverBlocked ==
    /\ spawned <= Len(files)
    /\ pcMain # "spawn" => spawned = Len(files)
    /\ \A t \in Tasks : pc[t] # "idle" <=> t <= spawned
    /\ \A t \in Tasks : SendsOf(t) = IF pc[t] \in {"sent", "done"} THEN 1 ELSE 0
    /\ Len(results) <= Len(files)
    /\ \A t \in Tasks : pc[t] = "send" => Len(results) < ChanCap
    /\ closed => \A t \in Tasks : pc[t] \in {"sent", "done"}
    /\ ~panicked

\* The channel is full: both results sent, none consumed yet.
C5_Witness == Len(files) = 2 /\ Len(results) = 2

\* C6: under fair scheduling RunPaths returns, and when it has returned the
\* result of every document has been consumed, each once, and the channel
\* is empty.
C6_EventuallyReturns ==
    /\ <>ret.returned
    /\ [](ret.returned => ConsumedAll /\ Len(results) = 0)

\* RunPaths has returned from a run of as many files as the model allows.
C6_Witness == ret.returned /\ ConsumedAll /\ Len(files) = MaxFiles

\* C7: a document run beside others returns the log lines and errors it
\* returns when run alone; RunPaths returns exactly those errors and prints
\* exactly those lines.  A run of a.yaml (all steps pass) and b.yaml (one
\* step fails) returns one error and prints every line of both.
C7_SameAsRunAlone ==
    /\ \A t \in Tasks :
            Finished(t) => [logs |-> logs[t], errs |-> errs[t]] = runFile(files[t], verbose)
    /\ ret.returned => ret.err.errs = SoloErrs(consumed) /\ RunPathsOutput = SoloOutput(consumed)
    /\ ret.returned /\ Len(files) = 2 /\ {files[1], files[Len(files)]} = {"w/a.yaml", "w/b.yaml"} =>
            /\ Len(ret.err.errs) = 1
            /\ \A t \in Tasks : \A i \in 1..Len(logs[t]) :
                    \E j \in 1..Len(stdout) : stdout[j].src = t /\ stdout[j].line = logs[t][i]

\* The run of a.yaml and b.yaml has returned its one error.
C7_Witness ==
    /\ ret.returned
    /\ Len(files) = 2
    /\ {files[1], files[Len(files)]} = {"w/a.yaml", "w/b.yaml"}
    /\ Len(ret.err.errs) = 1
    /\ Len(stdout) = Len(logs[1]) + Len(logs[Len(files)])

UsesSeven(r) ==
    r.URL = "http://s/u/7" /\ r.Header["X-Req"] = "r-7" /\ r.Body = Map1("id", JStr("7"))

QuerySeven(r) == r.URL = "http://s/c?q=7"

UsesAbc(r) == r.URL = "http://s/u/abc"

\* The request executeStep builds for step k of task t under a given store.
RequestUnder(t, k, store) ==
    LET Of(step) ==
            LET With(rb) == BuildRequest(step, rb.bodyData, rb.bodySource, store, verbose).req
            IN  With(resolveBodyFile(step, FilepathDir(files[t])))
    IN  Of(DocOf(t).Workflow[k])

\* C8: the request a step sends is the one built from the store its
\* document's captures have made so far, a later capture of a name replacing
\* the earlier one.  In a.yaml the id captured by step 1 is in step 1's own
\* output, in step 2's URL, header, body, expected header and expected path
\* value and in its output, and in step 3's query; step 3 captures i again,
\* and its own output and step 4 carry the new value.
C8_CapturedValueIsSubstituted ==
    \A t \in Tasks :
        /\ pc[t] = "await" => req[t] = RequestUnder(t, idx[t], StoreFromTrace(t))
        /\ files[t] = "w/a.yaml" /\ Finished(t) =>
                /\ Len(errs[t]) = 0
                /\ SentRequest(t, 2, UsesSeven)
                /\ SentRequest(t, 3, QuerySeven)
                /\ SentRequest(t, 4, UsesAbc)
                /\ HasLine(t, "[A] id=7")
                /\ HasLine(t, "[A] used 7")
                /\ HasLine(t, "[A] now abc")
                /\ HasLine(t, "[A] last abc")
                /\ verbose => /\ HasLine(t, "[A] Asserting header X-Echo == 7")
                              /\ HasLine(t, "[A] Asserting id == 7")

\* a.yaml has finished, verbose, with the second value of i in its last line.
C8_Witness ==
    \E t \in Tasks :
        /\ files[t] = "w/a.yaml"
        /\ pc[t] = "done"
        /\ verbose
        /\ HasLine(t, "[A] last abc")
        /\ HasLine(t, "[A] Captured i => abc")

\* The step events ev of task t, a document of n steps, are those of a loop
\* that takes the steps in order, each once: begin k, at most one request k,
\* end k, then begin k + 1; and the loop is where the events say.
InOrder(t, ev, n) ==
    /\ \A i \in 1..Len(ev) : ev[i].step \in 1..n
    /\ Len(ev) > 0 => ev[1].ev = "begin" /\ ev[1].step = 1
    /\ \A i \in 2..Len(ev) :
            CASE ev[i - 1].ev = "begin" ->
                    ev[i].ev \in {"request", "end"} /\ ev[i].step = ev[i - 1].step
              [] ev[i - 1].ev = "request" ->
                    ev[i].ev = "end" /\ ev[i].step = ev[i - 1].step
              [] ev[i - 1].ev = "end" ->
                    ev[i].ev = "begin" /\ ev[i].step = ev[i - 1].step + 1
    /\ pc[t] = "await" =>
            Len(ev) > 0 /\ ev[Len(ev)].ev = "request" /\ ev[Len(ev)].step = idx[t]
    /\ pc[t] = "step" =>
            \/ idx[t] = 1 /\ Len(ev) = 0
            \/ Len(ev) > 0 /\ ev[Len(ev)].ev = "end" /\ ev[Len(ev)].step = idx[t] - 1
    /\ Finished(t) /\ n > 0 => Len(ev) > 0 /\ ev[Len(ev)].ev = "end" /\ ev[Len(ev)].step = n

\* C9: in every document the steps are taken in document order, each once;
\* a step begins only when the one before it has ended, and sends at most
\* one request between its begin and its end.
C9_StepsInOrderOnce == \A t \in Tasks : InOrder(t, StepEvents(t), Len(spec[t].Workflow))

\* f.yaml has finished: four steps, each begun, sent and ended.
C9_Witness ==
    \E t \in Tasks : files[t] = "w/f.yaml" /\ pc[t] = "done" /\ Len(StepEvents(t)) = 12

\* C10: nothing of a document is printed before its result is consumed;
\* from then on its lines stand in the output as one block, in the order
\* the document logged them, with no line of another document among them.
C10_LinesInOneBlock ==
    \A t \in Tasks :
        LET Block(pos) ==
                IF t \notin ConsumedSet THEN pos = {}
                ELSE /\ Cardinality(pos) = Len(logs[t])
                     /\ \E a \in 1..Len(stdout) :
                            /\ pos = a..(a + Len(logs[t]) - 1)
                            /\ \A j \in 1..Len(logs[t]) : stdout[a + j - 1].line = logs[t][j]
        IN  Block(Positions(t))

\* Two documents are printed, the second file's block first.
C10_Witness ==
    /\ Len(consumed) = 2
    /\ stdout[1].src = 2
    /\ stdout[Len(stdout)].src = 1
    /\ verbose

(***************************************************************************)
(* Properties of document loading, body files and the checks of a step.    *)
(***************************************************************************)
\* err is what runFile returns for a file it could not read or parse: the
\* wrapped error of os.ReadFile or yaml.Unmarshal, not a StepError.
IsLoadError(err, path) ==
    /\ DOMAIN err = {"fmt", "vals"}
    /\ err.fmt = "%s: %w"
    /\ err.vals[1] \in {"read " \o path, "parse " \o path}

\* C11: a document that cannot be read or parsed has, from the moment
\* runFile gives up on it, exactly one error, which is not a StepError; it
\* starts no step and sends no request; its one log line, "Running workflow
\* file", is in its result and is printed by the time RunPaths returns.
\* The documents that did load run every one of their steps and return what
\* they return when run alone.
C11_UnloadableDocument ==
    \A t \in Tasks :
        /\ pc[t] \notin {"idle", "run"} /\ ~DocLoaded(t) =>
                /\ Finished(t)
                /\ Len(errs[t]) = 1
                /\ IsLoadError(errs[t][1], files[t])
                /\ Len(trace[t]) = 0
                /\ req[t] = NoRequest
                /\ logs[t] = LogLines(FilepathBase(files[t]),
                                      <<"Running workflow file: " \o files[t]>>)
                /\ ret.returned =>
                        \E i \in 1..Len(stdout) : stdout[i].src = t /\ stdout[i].line = logs[t][1]
        /\ files[t] \in {"w/d.yaml", "w/e.yaml"} /\ Finished(t) =>
                Len(errs[t]) = 1 /\ Len(trace[t]) = 0
        /\ Finished(t) /\ DocLoaded(t) =>
                /\ \A k \in 1..Len(DocOf(t).Workflow) : Cardinality(EndsOf(t, k)) = 1
                /\ errs[t] = runFile(files[t], verbose).errs

\* RunPaths has returned from a run of e.yaml, which does not parse, and
\* a.yaml, which ran its four steps: the one error is e.yaml's.
C11_Witness ==
    /\ ret.returned
    /\ Len(files) = 2
    /\ files[1] = "w/e.yaml"
    /\ files[2] = "w/a.yaml"
    /\ Len(ret.err.errs) = 1
    /\ IsLoadError(ret.err.errs[1], "w/e.yaml")
    /\ Len(StepEvents(2)) = 12

\* The body file the step names cannot be read, or is not a JSON object.
BodyFileUnusable(step, dir) ==
    /\ step.Request.BodyFile # ""
    /\ LET Unusable(rd) == rd.err # NoErr \/ UnmarshalObject(rd.val).err # NoErr
       IN  Unusable(ReadFile(IF FilepathIsAbs(step.Request.BodyFile)
                             THEN step.Request.BodyFile
                             ELSE FilepathJoin(dir, step.Request.BodyFile)))

EventsOf(t, k, ev) == {i \in 1..Len(trace[t]) : trace[t][i].ev = ev /\ trace[t][i].step = k}

\* The StepErrors of task t that name the given step.
ErrorsOf(t, name) == {i \in 1..Len(errs[t]) : errs[t][i].Step = name}

\* Step k of task t, whose body file is unusable: it sends nothing and
\* captures nothing; once it has ended it has one StepError, for the body
\* file; and when the document has finished, it and every step after it
\* have ended once.
BodyFileStepSkipped(t, k, step) ==
    /\ EventsOf(t, k, "request") = {}
    /\ EventsOf(t, k, "capture") = {}
    /\ EventsOf(t, k, "end") # {} =>
            /\ Cardinality(ErrorsOf(t, step.Step)) = 1
            /\ \A i \in ErrorsOf(t, step.Step) :
                    /\ errs[t][i].File = files[t]
                    /\ errs[t][i].Err.fmt = "resolve body file: %w"
    /\ Finished(t) =>
            \A j \in k..Len(DocOf(t).Workflow) : Cardinality(EventsOf(t, j, "end")) = 1

\* Task t stands before a step whose body file is unusable.
AtUnusableBodyFile(t) ==
    /\ pc[t] = "step"
    /\ DocLoaded(t)
    /\ BodyFileUnusable(DocOf(t).Workflow[idx[t]], FilepathDir(files[t]))

\* C12: a step whose body_file cannot be read or parsed as JSON sends no
\* request and captures nothing, gets exactly one StepError, and is followed
\* by every remaining step of its document; the step of the loop that passes
\* over it adds that one error, leaves the variable store as it was, hands
\* no request to the client and moves to the next step.
C12_BodyFileFailure ==
    /\ [](\A t \in Tasks :
            pc[t] \notin {"idle", "run"} /\ DocLoaded(t) =>
                \A k \in 1..Len(DocOf(t).Workflow) :
                    BodyFileUnusable(DocOf(t).Workflow[k], FilepathDir(files[t])) =>
                        BodyFileStepSkipped(t, k, DocOf(t).Workflow[k]))
    /\ [][\A t \in Tasks :
            AtUnusableBodyFile(t) /\ <<pc[t], idx[t]>>' # <<pc[t], idx[t]>> =>
                /\ vars'[t] = vars[t]
                /\ req'[t] = NoRequest
                /\ pc'[t] # "await"
                /\ idx'[t] = idx[t] + 1
                /\ Len(errs'[t]) = Len(errs[t]) + 1]_vs

\* c.yaml has finished: two steps failed on their body file, the capture of
\* the second of them never ran, and the last step was sent and printed.
C12_Witness ==
    \E t \in Tasks :
        /\ files[t] = "w/c.yaml"
        /\ pc[t] = "done"
        /\ Len(errs[t]) = 2
        /\ errs[t][1].Step = "post-file"
        /\ errs[t][2].Step = "post-text"
        /\ vars[t]["tok"] = "abc"
        /\ EventsOf(t, 4, "request") # {}
        /\ HasLine(t, "[C] sent abc")

\* The positions in the argument list of the paths collectFiles fails on.
BadPaths(ps) == {i \in 1..Len(ps) : collectFiles(ps[i]).err # NoErr}

\* The files of all the paths, in argument order.
RECURSIVE AllFiles(_)
AllFiles(ps) ==
    IF Len(ps) = 0 THEN <<>> ELSE collectFiles(Head(ps)).val \o AllFiles(Tail(ps))

\* RunPaths has started no goroutine and has consumed and printed nothing.
NothingRun ==
    /\ Len(files) = 0
    /\ spawned = 0
    /\ wg = 0
    /\ closer = "none"
    /\ ~closed
    /\ Len(results) = 0
    /\ Len(consumed) = 0
    /\ Len(stdout) = 0

\* RunPaths has returned the given error from before the go loop.
FailedEarly(err) ==
    /\ pcMain = "done"
    /\ ret = [returned |-> TRUE, err |-> Plain(err)]
    /\ NothingRun

\* C13: once RunPaths is past its checks, then with no path it has returned
\* "no paths provided"; with a path that cannot be accessed or listed it has
\* returned the access error of the first such path, which names the path,
\* whatever files the paths before it resolved to; with paths that resolve
\* to no file it has returned "no files found"; in all three cases no task
\* was started and nothing was consumed or printed.  Otherwise the file list
\* is that of all the paths in order and no such error is returned.
C13_InputErrors ==
    pcMain # "collect" =>
        LET Checked(bad) ==
                IF Len(paths) = 0 THEN FailedEarly(Errorf("no paths provided", <<>>))
                ELSE IF bad # {} THEN
                    LET First(i) ==
                            /\ FailedEarly(collectFiles(paths[i]).err)
                            /\ ret.err.err.vals[1] \in {"unable to access " \o paths[i],
                                                        "unable to read dir " \o paths[i]}
                    IN  First(CHOOSE i \in bad : \A j \in bad : i <= j)
                ELSE IF Len(AllFiles(paths)) = 0
                THEN FailedEarly(Errorf("no files found", <<>>))
                ELSE /\ files = AllFiles(paths)
                     /\ "err" \notin DOMAIN ret.err
        IN  Checked(BadPaths(paths))

\* RunPaths has returned the access error of its second path; the first path
\* is a workflow file, and it was not run.
C13_Witness ==
    /\ paths = <<"w/a.yaml", "nowhere">>
    /\ ret.returned
    /\ ret.err.err.vals[1] = "unable to access nowhere"
    /\ spawned = 0

\* The step of a probe has returned err.
ProbeReturned == arg.kind = "step" /\ res.done

StatusError(expected, actual) == Errorf("expected status %d, got %d", <<expected, actual>>)

\* C14: a step returns the status error exactly when it declares a status
\* (not 0) and the response has another one; the message of that error holds
\* both codes in decimal; a step that declares none never returns it, whatever
\* the response status.  A step that returns the status error has checked
\* nothing else: it has logged no assertion, captured nothing and printed
\* nothing.
C14_StatusExpectation ==
    ProbeReturned =>
        LET Checked(expected, actual, err) ==
                /\ (err.fmt = "expected status %d, got %d")
                        <=> (expected # NoStatus /\ actual # expected)
                /\ expected # NoStatus /\ actual # expected =>
                        /\ err = StatusError(expected, actual)
                        /\ ErrorString(err) = "expected status " \o FormatInt(expected)
                                                \o ", got " \o FormatInt(actual)
                        /\ Contains(ErrorString(err), FormatInt(expected))
                        /\ Contains(ErrorString(err), FormatInt(actual))
                        /\ res.out.vars = ProbeStore
                        /\ Len(res.out.writes) = 0
                /\ expected = NoStatus /\ Len(arg.step.Expect.Headers) = 0
                      /\ Len(arg.step.Expect.JSONPathMatch) = 0
                      /\ Len(arg.step.Capture) = 0 => err = NoErr
        IN  Checked(arg.step.Expect.Status, arg.resp.StatusCode, res.out.err)

\* A step that expects 200 has met 500 and failed with "expected status 200,
\* got 500".
C14_Witness ==
    /\ ProbeReturned
    /\ arg.step.Expect.Status = 200
    /\ arg.resp.StatusCode = 500
    /\ ErrorString(res.out.err) = "expected status 200, got 500"

\* The probe's step has one header expectation and has passed the status check.
OneHeaderChecked ==
    /\ ProbeReturned
    /\ Len(arg.step.Expect.Headers) = 1
    /\ ~StatusMismatch(arg.step.Expect.Status, arg.resp.StatusCode)

\* C15: a header expectation with a blank name, with neither value nor
\* contains, or with both of them is rejected as an error of the step; one
\* with a name and exactly one of the two fails the step exactly when the
\* header of the response differs from the substituted value, or does not
\* contain the substituted text.
C15_HeaderExpectation ==
    OneHeaderChecked =>
        LET Checked(he, actual, err) ==
                /\ TrimSpace(he.Name) = "" \/ ((he.Value = "") <=> (he.Contains = ""))
                        => err # NoErr
                /\ TrimSpace(he.Name) # "" /\ he.Value # "" /\ he.Contains = ""
                        => (err # NoErr <=> actual # applyVars(he.Value, ProbeStore))
                /\ TrimSpace(he.Name) # "" /\ he.Value = "" /\ he.Contains # ""
                        => (err # NoErr <=> ~Contains(actual, applyVars(he.Contains, ProbeStore)))
        IN  Checked(arg.step.Expect.Headers[1],
                    HeaderGet(arg.resp.Header, TrimSpace(arg.step.Expect.Headers[1].Name)),
                    res.out.err)

\* What executeStep does with a header expectation: only a blank name and
\* neither of the two are rejected; with both declared, both are checked.
C15_BothAreChecked ==
    OneHeaderChecked =>
        LET Checked(he, actual, err) ==
                /\ TrimSpace(he.Name) = "" \/ (he.Value = "" /\ he.Contains = "") => err # NoErr
                /\ TrimSpace(he.Name) # "" /\ (he.Value # "" \/ he.Contains # "") =>
                        (err = NoErr <=>
                            /\ he.Value # "" => actual = applyVars(he.Value, ProbeStore)
                            /\ he.Contains # ""
                                  => Contains(actual, applyVars(he.Contains, ProbeStore)))
        IN  Checked(arg.step.Expect.Headers[1],
                    HeaderGet(arg.resp.Header, TrimSpace(arg.step.Expect.Headers[1].Name)),
                    res.out.err)

\* An expectation with both value and contains has passed.
C15_BothAccepted ==
    /\ OneHeaderChecked
    /\ arg.step.Expect.Headers[1] = HeaderExpectation("X-Token", "Bearer abc", "abc")
    /\ res.out.err = NoErr

\* The probe's step has reached its captures: nothing before them failed.
CapturesDone ==
    /\ ProbeReturned
    /\ Len(arg.step.Capture) > 0
    /\ ~StatusMismatch(arg.step.Expect.Status, arg.resp.StatusCode)
    /\ Len(arg.step.Expect.Headers) = 0

\* The store after the writes <<name, value>>, applied in order.
RECURSIVE StoreAfter(_, _)
StoreAfter(writes, store) ==
    IF Len(writes) = 0 THEN store
    ELSE StoreAfter(Tail(writes), VarSet(store, Head(writes)[1], Head(writes)[2]))

NoSourceError == Errorf("capture must specify json_path or header", <<>>)

HeaderCaptureDone ==
    /\ CapturesDone
    /\ Len(arg.step.Capture) = 1
    /\ arg.step.Capture[1].JSONPath = ""
    /\ arg.step.Capture[1].Header # ""

\* C17: a header capture without a pattern stores the value of the header.
\* With a pattern that matches the value it stores the first group when the
\* pattern has one and the whole match when it has none; with a pattern that
\* is invalid or does not match, the step fails and nothing is stored.
C17_HeaderCaptureRegex ==
    HeaderCaptureDone =>
        LET Stores(as, x) ==
                /\ res.out.err = NoErr
                /\ res.out.writes = <<(<<as, x>>)>>
                /\ res.out.vars = VarSet(ProbeStore, as, x)
            Fails(message) ==
                /\ res.out.err # NoErr
                /\ ErrorString(res.out.err) = message
                /\ res.out.writes = <<>>
                /\ res.out.vars = ProbeStore
            Captured(cap, headerVal) ==
                CASE cap.Regex = "" -> Stores(cap.As, headerVal)
                  [] cap.Regex = "(" ->
                        Fails("invalid regex (: error parsing regexp: missing closing ): (")
                  [] cap.Regex = "Bearer (.*)" /\ headerVal = "Bearer abc" -> Stores(cap.As, "abc")
                  [] cap.Regex = "Bearer" /\ headerVal = "Bearer abc" -> Stores(cap.As, "Bearer")
                  [] cap.Regex = "[0-9]+" /\ headerVal = "n42x" -> Stores(cap.As, "42")
                  [] OTHER ->
                        Fails("regex " \o cap.Regex \o " did not match header " \o cap.Header
                                \o " value \"" \o headerVal \o "\"")
        IN  Captured(arg.step.Capture[1], HeaderGet(arg.resp.Header, arg.step.Capture[1].Header))

\* "Bearer (.*)" on the header "Bearer abc" has stored the group, "abc".
C17_Witness ==
    /\ HeaderCaptureDone
    /\ arg.step.Capture[1] = Capture("", "X-Token", "Bearer (.*)", "a")
    /\ res.out.err = NoErr
    /\ res.out.vars["a"] = "abc"

\* The probe's step has one capture that declares a valid pattern and no
\* source, and the pattern matches the body of the response.
RegexOnlyCaptureDone ==
    /\ CapturesDone
    /\ Len(arg.step.Capture) = 1
    /\ arg.step.Capture[1].JSONPath = ""
    /\ arg.step.Capture[1].Header = ""
    /\ arg.step.Capture[1].Regex # ""
    /\ RegexpCompileErr(arg.step.Capture[1].Regex) = NoErr
    /\ Len(FindStringSubmatch(arg.step.Capture[1].Regex, arg.resp.Body.raw)) > 0

\* C18: a capture that declares only a regex applies the pattern to the body
\* of the response and stores what it extracts under its destination name.
C18_RegexOnlyFromBody ==
    RegexOnlyCaptureDone =>
        LET Extracted(as, matches) ==
                /\ res.out.err = NoErr
                /\ as \in DOMAIN res.out.vars
                /\ res.out.vars[as] = SubmatchValue(matches)
        IN  Extracted(arg.step.Capture[1].As,
                      FindStringSubmatch(arg.step.Capture[1].Regex, arg.resp.Body.raw))

\* What executeStep does with such a capture: the step fails with "capture
\* must specify json_path or header" and the store is left as it was.
C18_RegexOnlyRejected ==
    RegexOnlyCaptureDone =>
        /\ res.out.err = NoSourceError
        /\ res.out.vars = ProbeStore
        /\ res.out.writes = <<>>

\* The pattern "[0-9]+" alone, against the body {"id":"7"}: the step has failed.
C18_Rejected ==
    /\ RegexOnlyCaptureDone
    /\ arg.step.Capture[1] = Capture("", "", "[0-9]+", "a")
    /\ res.out.err = NoSourceError

\* applyVars has returned.
VarsApplied == arg.kind = "vars" /\ res.done

\* s[i..j] is an occurrence of ${identifier}: "${", a run of one or more
\* characters that are not "}", and "}".
Occurrence(s, i, j) ==
    /\ 1 <= i
    /\ i + 3 <= j
    /\ j <= Len(s)
    /\ SubSeq(s, i, i + 1) = "${"
    /\ SubSeq(s, j, j) = "}"
    /\ \A k \in (i + 2)..(j - 1) : SubSeq(s, k, k) # "}"

HasPlaceholder(s) == \E i \in 1..Len(s), j \in 1..Len(s) : Occurrence(s, i, j)

\* s with its occurrences replaced, from the leftmost on: the text before the
\* first occurrence, the store's value for its identifier (the occurrence
\* itself when the store has none), and the rest of s treated the same way.
RECURSIVE Substituted(_, _)
Substituted(s, V) ==
    LET Cut(i, j) ==
            LET Replaced(k) == IF k \in DOMAIN V THEN V[k] ELSE SubSeq(s, i, j)
            IN  SubSeq(s, 1, i - 1) \o Replaced(SubSeq(s, i + 2, j - 1))
                    \o Substituted(SubSeq(s, j + 1, Len(s)), V)
        First(starts) ==
            LET Leftmost(i) == Cut(i, CHOOSE j \in 1..Len(s) : Occurrence(s, i, j))
            IN  Leftmost(CHOOSE i \in starts : \A h \in starts : i <= h)
    IN  IF ~HasPlaceholder(s) THEN s
        ELSE First({i \in 1..Len(s) : \E j \in 1..Len(s) : Occurrence(s, i, j)})

\* C19: applyVars replaces each occurrence ${k} by V[k] when k is a key of V
\* and leaves it as it stands when k is not; so applyVars("${k}", V) is V[k] or
\* "${k}" for an identifier k (one or more characters, none of them "}"), a
\* string without an occurrence is returned as it is, and a string is returned
\* for every input.  The store is not changed.
C19_ApplyVars ==
    VarsApplied =>
        LET Whole(s, key) == Len(s) >= 4 /\ Occurrence(s, 1, Len(s)) /\ key = SubSeq(s, 3, Len(s) - 1)
            Applied(s, V, out) ==
                /\ out = Substituted(s, V)
                /\ ~HasPlaceholder(s) => out = s
                /\ \A k \in DOMAIN V : Whole(s, k) => out = V[k]
                /\ Whole(s, SubSeq(s, 3, Len(s) - 1)) /\ SubSeq(s, 3, Len(s) - 1) \notin DOMAIN V
                        => out = s
                /\ out \in STRING
                /\ res.vars = V
        IN  Applied(arg.input, arg.vars, res.out)

\* "x${a}y${b}z" under a = "${b}", b = "2" has become "x${b}y2z": both
\* occurrences replaced, the value of a not scanned again.
C19_Witness ==
    /\ VarsApplied
    /\ arg.input = "x${a}y${b}z"
    /\ arg.vars = Map2("a", "${b}", "b", "2")
    /\ res.out = "x${b}y2z"

\* An occurrence whose key is unknown stays, beside one that is replaced.
C19_UnknownKept ==
    /\ VarsApplied
    /\ arg.input = "${zz}-${a}"
    /\ arg.vars = Map1("a", "1")
    /\ res.out = "${zz}-1"

\* applyVarsToInterface has returned.
BodyApplied == arg.kind = "body" /\ res.done

\* out is val with every string in it substituted: the same kind of value,
\* sequences of the same length, maps with the same keys.
RECURSIVE SameShapeSubstituted(_, _, _)
SameShapeSubstituted(val, out, V) ==
    /\ out.t = val.t
    /\ CASE val.t = "string" -> out.v = applyVars(val.v, V)
         [] val.t = "array" ->
                /\ Len(out.v) = Len(val.v)
                /\ \A i \in 1..Len(val.v) : SameShapeSubstituted(val.v[i], out.v[i], V)
         [] val.t = "object" ->
                /\ DOMAIN out.v = DOMAIN val.v
                /\ \A k \in DOMAIN val.v : SameShapeSubstituted(val.v[k], out.v[k], V)
         [] OTHER -> out = val

\* C20: applyVarsToInterface returns a value of the shape of its input, the
\* strings substituted and the keys untouched, and changes neither the body it
\* was given, which is the body the loaded document holds, nor the store.
C20_SubstitutionPure ==
    BodyApplied =>
        /\ SameShapeSubstituted(arg.val, res.out, arg.vars)
        /\ res.val = arg.val
        /\ res.vars = arg.vars

\* What applyVarsToInterface does: the result has the shape of the input and
\* the store is not changed, but a map or a sequence handed in holds the
\* substituted values afterwards; only a value that is not one is left as it was.
C20_SubstitutesInPlace ==
    BodyApplied =>
        /\ SameShapeSubstituted(arg.val, res.out, arg.vars)
        /\ res.vars = arg.vars
        /\ arg.val.t \in {"array", "object"} => res.val = res.out
        /\ arg.val.t \notin {"array", "object"} => res.val = arg.val

\* The body {id: "${a}"} under a = "1": the caller's map now holds id = "1".
C20_BodyOverwritten ==
    /\ BodyApplied
    /\ arg.val = JObj(Map1("id", JStr("${a}")))
    /\ arg.vars = Map1("a", "1")
    /\ res.val = JObj(Map1("id", JStr("1")))

\* The same in a run: once the step "use" of a document has built its request,
\* the inline body of the loaded document is no longer the one read from the
\* file.
C20_DocumentKept ==
    \A t \in 1..Len(files) :
        DocLoaded(t) /\ pc[t] \in {"step", "await", "send", "sent", "done"} => spec[t] = DocOf(t)

\* evalJSONPath has returned.
PathEvaluated == arg.kind = "path" /\ res.done

\* The filter queries of the probes: field, value and trailing path.
FilterQueries ==
    {[path |-> "$[?(@.id==2)].title", field |-> "id", val |-> "2", rest |-> "title"],
     [path |-> "$[?(@.id=='2')].title", field |-> "id", val |-> "2", rest |-> "title"],
     [path |-> "$[?(@.id==2)].title.x", field |-> "id", val |-> "2", rest |-> "title.x"],
     [path |-> "$[?(@.id==2)]", field |-> "id", val |-> "2", rest |-> ""],
     [path |-> "$[?(@.id==9)]", field |-> "id", val |-> "9", rest |-> ""],
     [path |-> "$[?(@.id==<nil>)]", field |-> "id", val |-> "<nil>", rest |-> ""]}

\* The positions of arr whose element is an object with field printing as val
\* (a field the object does not have is nil, which prints as <nil>).
Selected(arr, field, val) ==
    {i \in 1..Len(arr) : arr[i].t = "object" /\ Sprint(MapGet(arr[i].v, field)) = val}

\* The k-th smallest member of a set of positions.
Nth(positions, k) == CHOOSE i \in positions : Cardinality({j \in positions : j < i}) = k - 1

\* C21: for the filter $[?(@.field==value)]: a root that is no array is an
\* error; the elements selected are exactly the elements of the root that
\* are objects whose field prints as value, in the order of the array; none
\* selected is an error; with a trailing path the result is that path
\* evaluated against the first element selected, and without one the result
\* is the list of all the elements selected.
C21_EqualityFilter ==
    PathEvaluated =>
        \A q \in FilterQueries : arg.path = q.path =>
            LET Filtered(sel) ==
                    IF sel = {} THEN ErrorString(res.out.err) = "no match for filter " \o q.path
                    ELSE IF q.rest # ""
                    THEN res.out = evalJSONPath(arg.obj.v[Nth(sel, 1)], q.rest)
                    ELSE /\ res.out.err = NoErr
                         /\ res.out.val.t = "array"
                         /\ Len(res.out.val.v) = Cardinality(sel)
                         /\ \A k \in 1..Cardinality(sel) :
                                res.out.val.v[k] = arg.obj.v[Nth(sel, k)]
            IN  IF arg.obj.t # "array"
                THEN ErrorString(res.out.err) = "expected array for filter " \o q.path
                ELSE Filtered(Selected(arg.obj.v, q.field, q.val))

\* $[?(@.id==2)].title on a list with ids 1, 2, "2" has returned "B", the
\* title of the first of the two elements selected.
C21_Witness ==
    /\ PathEvaluated
    /\ arg.path = "$[?(@.id==2)].title"
    /\ arg.obj.t = "array"
    /\ Selected(arg.obj.v, "id", "2") = {2, 4}
    /\ res.out = Ret(JStr("B"), NoErr)

\* Without a trailing path both selected elements are returned, in order.
C21_AllSelected ==
    /\ PathEvaluated
    /\ arg.path = "$[?(@.id==2)]"
    /\ res.out.err = NoErr
    /\ Len(res.out.val.v) = 2
    /\ res.out.val.v[2].v["title"] = JStr("C")

\* The index queries of the probes: the index and the trailing path.
IndexQueries ==
    {[path |-> "$[0]", n |-> 0, rest |-> ""], [path |-> "$[1]", n |-> 1, rest |-> ""],
     [path |-> "$[5]", n |-> 5, rest |-> ""], [path |-> "$[0].name", n |-> 0, rest |-> "name"],
     [path |-> " $[0].name ", n |-> 0, rest |-> "name"],
     [path |-> "$[1].title", n |-> 1, rest |-> "title"]}

\* C22: for the index form $[N]: a root that is no array is an error; N at or
\* past the length of the array is an out-of-range error, so every index fails
\* against the empty array; otherwise the result is element N (counted from 0),
\* or the trailing path evaluated against element N when there is one.
C22_IndexForm ==
    PathEvaluated =>
        \A q \in IndexQueries : arg.path = q.path =>
            IF arg.obj.t # "array"
            THEN ErrorString(res.out.err) = "expected array for index " \o q.path
            ELSE IF q.n >= Len(arg.obj.v)
            THEN ErrorString(res.out.err) = "index out of range for " \o q.path
            ELSE IF q.rest # "" THEN res.out = evalJSONPath(arg.obj.v[q.n + 1], q.rest)
            ELSE res.out = Ret(arg.obj.v[q.n + 1], NoErr)

\* $[0].name on [{"name":"X"}] has returned "X".
C22_Witness ==
    /\ PathEvaluated
    /\ arg.path = "$[0].name"
    /\ arg.obj = JArr(<<JObj(Map1("name", JStr("X")))>>)
    /\ res.out = Ret(JStr("X"), NoErr)

\* $[0].name on [] has failed with an out-of-range error.
C22_EmptyArray ==
    /\ PathEvaluated
    /\ arg.path = "$[0].name"
    /\ arg.obj = JArr(<<>>)
    /\ ErrorString(res.out.err) = "index out of range for $[0].name"

\* $[1] on a one-element list: the index equal to the length is out of range.
C22_AtLength ==
    /\ PathEvaluated
    /\ arg.path = "$[1]"
    /\ arg.obj = JArr(<<JObj(Map1("name", JStr("X")))>>)
    /\ ErrorString(res.out.err) = "index out of range for $[1]"

\* A segment of a dotted path: a name (or none) and an index (or none).
Seg(name, indexed, n) == [name |-> name, indexed |-> indexed, idx |-> n]

\* The dotted queries of the probes, as the segments they are made of.
SegmentQueries ==
    {[path |-> "$", segs |-> <<>>], [path |-> "$.", segs |-> <<>>],
     [path |-> "name", segs |-> <<Seg("name", FALSE, 0)>>],
     [path |-> "$.name", segs |-> <<Seg("name", FALSE, 0)>>],
     [path |-> "missing", segs |-> <<Seg("missing", FALSE, 0)>>],
     [path |-> "missing.x", segs |-> <<Seg("missing", FALSE, 0), Seg("x", FALSE, 0)>>],
     [path |-> "name.x", segs |-> <<Seg("name", FALSE, 0), Seg("x", FALSE, 0)>>],
     [path |-> "name[0]", segs |-> <<Seg("name", TRUE, 0)>>],
     [path |-> "name[-1]", segs |-> <<Seg("name", TRUE, -1)>>],
     [path |-> "[0]", segs |-> <<Seg("", TRUE, 0)>>],
     [path |-> "$[-1]", segs |-> <<Seg("", TRUE, -1)>>],
     [path |-> "items[0].k", segs |-> <<Seg("items", TRUE, 0), Seg("k", FALSE, 0)>>],
     [path |-> "items[0].n", segs |-> <<Seg("items", TRUE, 0), Seg("n", FALSE, 0)>>],
     [path |-> "$.items[0]", segs |-> <<Seg("items", TRUE, 0)>>],
     [path |-> "items[1]", segs |-> <<Seg("items", TRUE, 1)>>],
     [path |-> "items[2]", segs |-> <<Seg("items", TRUE, 2)>>],
     [path |-> "items[-1]", segs |-> <<Seg("items", TRUE, -1)>>]}

\* How the walk along the segments ends: "" when every segment applies, else
\* the start of the error message.  A negative index is looked at like any
\* other when negatives is TRUE, and taken for no index when it is FALSE.
RECURSIVE Walk(_, _, _)
Walk(cur, segs, negatives) ==
    LET Indexed(seg, v) ==
            IF ~seg.indexed \/ (seg.idx < 0 /\ ~negatives) THEN Walk(v, Tail(segs), negatives)
            ELSE IF v.t # "array" THEN "expected array for segment "
            ELSE IF seg.idx < 0 \/ seg.idx >= Len(v.v) THEN "index out of range for segment "
            ELSE Walk(v.v[seg.idx + 1], Tail(segs), negatives)
        Named(seg) ==
            IF seg.name = "" THEN Indexed(seg, cur)
            ELSE IF cur.t # "object" THEN "expected object for segment "
            ELSE Indexed(seg, MapGet(cur.v, seg.name))
    IN  IF Len(segs) = 0 THEN "" ELSE Named(Head(segs))

\* The call has ended as the walk says.
EndsAs(outcome) ==
    IF outcome = "" THEN res.out.err = NoErr
    ELSE res.out.err # NoErr /\ HasPrefix(ErrorString(res.out.err), outcome)

\* C23: for a dotted path, after a leading $ or $. is taken off: a named
\* segment applied to a value that is no object fails with "expected object",
\* an indexed segment applied to a value that is no array fails with
\* "expected array", an index outside the bounds of the array fails, and a
\* blank query always fails.
C23_DottedPath ==
    PathEvaluated =>
        /\ TrimSpace(arg.path) = "" => res.out.err # NoErr
        /\ \A q \in SegmentQueries : arg.path = q.path => EndsAs(Walk(arg.obj, q.segs, TRUE))

\* What evalJSONPath does: a negative index is the mark of "no index", so a
\* segment with one is treated as if it had none, whatever the value is.
C23_NegativeIndexIgnored ==
    PathEvaluated =>
        /\ TrimSpace(arg.path) = "" => res.out.err = Errorf("empty path", <<>>)
        /\ \A q \in SegmentQueries :
                arg.path = q.path => EndsAs(Walk(arg.obj, q.segs, FALSE))

\* items[-1] on an object whose items is a list of two: no error, the list
\* itself is returned.
C23_NegativeIndexAccepted ==
    /\ PathEvaluated
    /\ arg.path = "items[-1]"
    /\ arg.obj.t = "object"
    /\ res.out.err = NoErr
    /\ res.out.val = arg.obj.v["items"]
    /\ Len(res.out.val.v) = 2

\* The probe's step has met a response without a body, with one path
\* expectation or one json_path capture to evaluate.
EmptyBodyDone ==
    /\ ProbeReturned
    /\ arg.resp.Body.raw = ""
    /\ Len(arg.step.Expect.JSONPathMatch) + Len(arg.step.Capture) = 1

\* The query of that expectation or capture.
ProbeQuery ==
    IF Len(arg.step.Expect.JSONPathMatch) = 1 THEN arg.step.Expect.JSONPathMatch[1].Path
    ELSE arg.step.Capture[1].JSONPath

\* The queries of the probes that select the root: "$", "$." and, its
\* negative index being read as no index, "$[-1]".
RootQueries == {"$", "$.", "$[-1]"}

ParseFailed == res.out.err # NoErr /\ HasPrefix(ErrorString(res.out.err), "parse response json")

\* C24, as stated: with an empty response body the step is not failed by
\* body parsing, and every path expectation and every json_path capture with
\* a non-blank query fails the step.
C24_EmptyBodyFailsEveryQuery ==
    EmptyBodyDone =>
        /\ ~ParseFailed
        /\ TrimSpace(ProbeQuery) # "" => res.out.err # NoErr

\* C24, amended: with an empty response body the step is not failed by body
\* parsing and the queries are evaluated against nil.  A query that names a
\* field, takes an index or filters fails the step with the error of the
\* evaluation.  A query that selects the root yields nil, which prints as
\* <nil>: a capture stores "<nil>" and the step passes; an expectation passes
\* when the declared value, substituted, is "<nil>" and fails the step on the
\* mismatch otherwise.
C24_EmptyBody ==
    EmptyBodyDone =>
        LET Expectation(m) ==
                IF m.Path \in RootQueries
                THEN res.out.err = NoErr <=> applyVars(Sprint(m.Value), ProbeStore) = "<nil>"
                ELSE HasPrefix(ErrorString(res.out.err), "jsonpath " \o m.Path \o ": ")
            Captured(cap) ==
                IF cap.JSONPath \in RootQueries
                THEN res.out.err = NoErr /\ res.out.vars = VarSet(ProbeStore, cap.As, "<nil>")
                ELSE /\ HasPrefix(ErrorString(res.out.err),
                                  "capture json_path " \o cap.JSONPath \o ": ")
                     /\ res.out.vars = ProbeStore
        IN  /\ ~ParseFailed
            /\ IF Len(arg.step.Capture) = 1 THEN Captured(arg.step.Capture[1])
               ELSE Expectation(arg.step.Expect.JSONPathMatch[1])

\* The capture json_path "$" against an empty body has stored "<nil>" and the
\* step has passed.
C24_Witness ==
    /\ EmptyBodyDone
    /\ Len(arg.step.Capture) = 1
    /\ ProbeQuery = "$"
    /\ res.out.err = NoErr
    /\ res.out.vars["a"] = "<nil>"

\* The expectation on "n" against an empty body has failed the step in the
\* evaluation: nil is no object.
C24_NamedQueryFails ==
    /\ EmptyBodyDone
    /\ Len(arg.step.Capture) = 0
    /\ ProbeQuery = "n"
    /\ ErrorString(res.out.err) = "jsonpath n: expected object for segment n"

\* The probe's step has evaluated one path expectation against the body
\* with the values, and the query has selected a value.
MatcherCompared ==
    /\ ProbeReturned
    /\ arg.resp.Body.raw # ""
    /\ Len(arg.step.Expect.JSONPathMatch) = 1
    /\ evalJSONPath(arg.resp.Body.json.val, arg.step.Expect.JSONPathMatch[1].Path).err = NoErr

IsScalar(x) == x.t \in {"string", "number", "bool", "nil"}

\* C25: a path expectation passes exactly when the string form of the value
\* selected equals the string form of the declared value with the variables
\* substituted, whatever the types: the number 30 matches the declared "30",
\* a declared number matches the string "30".  A mismatch fails the step with
\* "jsonpath <path> expected <expected>, got <actual>", the expected text
\* quoted and the actual value under the %q verb, which quotes a string and
\* prints a number, a boolean or nil as %!q(...) around its string form.
C25_StringFormEquality ==
    MatcherCompared =>
        LET Compared(m, actual, expected) ==
                /\ res.out.err = NoErr <=> Sprint(actual) = expected
                /\ Sprint(actual) # expected =>
                        /\ ErrorString(res.out.err) =
                                "jsonpath " \o m.Path \o " expected \"" \o expected \o "\", got "
                                    \o Quoted(actual)
                        /\ Contains(ErrorString(res.out.err), expected)
                        /\ IsScalar(actual) => Contains(ErrorString(res.out.err), Sprint(actual))
                        /\ actual.t = "string" =>
                                Contains(ErrorString(res.out.err), "got \"" \o actual.v \o "\"")
        IN  Compared(arg.step.Expect.JSONPathMatch[1],
                     evalJSONPath(arg.resp.Body.json.val, arg.step.Expect.JSONPathMatch[1].Path).val,
                     applyVars(Sprint(arg.step.Expect.JSONPathMatch[1].Value), ProbeStore))

\* The number 30 of the body has matched the declared string "30".
C25_Witness ==
    /\ MatcherCompared
    /\ arg.step.Expect.JSONPathMatch[1] = JSONPathVal("n", JStr("30"))
    /\ res.out.err = NoErr

\* The declared number 30 has matched the string "30" of the body.
C25_NumberMatchesString ==
    /\ MatcherCompared
    /\ arg.step.Expect.JSONPathMatch[1] = JSONPathVal("$.s", JNum(30))
    /\ res.out.err = NoErr

\* "abc" against the declared "31": the step has failed with both in the message.
C25_Mismatch ==
    /\ MatcherCompared
    /\ arg.step.Expect.JSONPathMatch[1] = JSONPathVal("t", JStr("31"))
    /\ ErrorString(res.out.err) = "jsonpath t expected \"31\", got \"abc\""

\* What each path argument resolves to: a file to itself, a directory to the
\* .yaml and .yml files directly in it, in sorted order.
Resolution(p) ==
    CASE p = "x" -> <<"x/a.yaml", "x/b.yml">>
      [] p = "s" -> <<"s/one.yml">>
      [] p = "o" -> <<>>
      [] OTHER -> <<p>>

RECURSIVE Resolutions(_)
Resolutions(ps) == IF Len(ps) = 0 THEN <<>> ELSE Resolution(Head(ps)) \o Resolutions(Tail(ps))

\* C26: the documents RunPaths runs are the concatenation, in argument order,
\* of what each path resolves to: a file resolves to itself whatever its
\* suffix, a directory to the sorted .yaml and .yml entries directly in it,
\* its subdirectories left out.  Each entry of the list is run as a task of
\* its own, so a file reached twice is listed twice and run twice.
C26_FileList ==
    /\ pcMain # "collect" /\ Len(files) > 0 => files = Resolutions(paths)
    /\ ret.returned /\ Len(files) > 0 =>
            /\ spawned = Len(files)
            /\ ConsumedAll
            /\ \A t \in 1..Len(files) :
                    /\ pc[t] = "done"
                    /\ logs[t][1] = "[" \o FilepathBase(files[t]) \o "] Running workflow file: "
                                        \o files[t]
                    /\ Cardinality({i \in 1..Len(consumed) : consumed[i] = t}) = 1

\* The directory s and then a file of x that is no workflow file: the list is
\* the one .yml file of s, s/more/deep.yaml left out, followed by the file.
C26_Witness ==
    /\ ret.returned
    /\ paths = <<"s", "x/notes.txt">>
    /\ files = <<"s/one.yml", "x/notes.txt">>

\* The same file given twice has run twice: two tasks, each with its request.
C26_RunTwice ==
    /\ ret.returned
    /\ paths = <<"w/a.yaml", "w/a.yaml">>
    /\ files = paths
    /\ \A t \in {1, 2} : pc[t] = "done" /\ \E i \in 1..Len(trace[t]) : IsRequest(trace[t][i])

\* A file then a directory, and the directory alone in its sorted order.
C26_DirectorySorted ==
    /\ ret.returned
    /\ paths = <<"x">>
    /\ files = <<"x/a.yaml", "x/b.yml">>

\* The request of a probe has been built, or has failed.
RequestBuilt == arg.kind = "request" /\ res.done

\* The JSON the body files of w hold.
BodyJSON ==
    JObj(Map2("id", JStr("${tok}"), "tags", JArr(<<JStr("t-${tok}"), JNum(1)>>)))

\* C27: when a step declares a body_file, with or without an inline body,
\* the payload of the request is the JSON of the file with the variables
\* substituted, and nothing of the inline body is sent: a file that holds an
\* empty object gives a request without a body, a file that cannot be used
\* fails the step and no request is built.  When a step declares only an
\* inline body, the payload is that body, substituted.
C27_BodyFilePrecedence ==
    RequestBuilt =>
        LET request == arg.step.Request
            Sent(payload, source) ==
                /\ res.out.err = NoErr
                /\ res.out.req.Body = payload
                /\ res.out.bodySource = source
                /\ ("Using body from: " \o source) \in {res.out.logs[i] : i \in 1..Len(res.out.logs)}
                        <=> (arg.verbose /\ payload # NilMap)
            FromFile(f) ==
                CASE f = "body.json" -> Sent(applyVarsToInterface(BodyJSON, arg.vars).v, f)
                  [] f = "empty.json" -> Sent(NilMap, f)
                  [] OTHER -> res.out.err # NoErr /\ res.out.req = NoRequest
        IN  IF request.BodyFile # "" THEN FromFile(request.BodyFile)
            ELSE IF request.Body # NilMap
            THEN Sent(applyVarsToInterface(JObj(request.Body), arg.vars).v, "inline")
            ELSE res.out.err = NoErr /\ res.out.req.Body = NilMap

\* A step with both: the payload is the file's {id: "abc", tags: ["t-abc", 1]}
\* and the inline name is not in it.
C27_Witness ==
    /\ RequestBuilt
    /\ arg.step.Request.Body # NilMap
    /\ arg.step.Request.BodyFile = "body.json"
    /\ res.out.err = NoErr
    /\ res.out.req.Body = Map2("id", JStr("abc"), "tags", JArr(<<JStr("t-abc"), JNum(1)>>))
    /\ "name" \notin DOMAIN res.out.req.Body

\* A step with an inline body only: the payload is that body, substituted.
C27_InlineOnly ==
    /\ RequestBuilt
    /\ arg.step.Request.Body # NilMap
    /\ arg.step.Request.BodyFile = ""
    /\ res.out.req.Body = Map1("name", JStr("in-abc"))

\* The request of a probe has been built.
URLBuilt == RequestBuilt /\ res.out.err = NoErr

\* The text of s from its first "?" on, "" when it has none.
FromQuery(s) ==
    LET From(i) == IF i < 0 THEN "" ELSE SubSeq(s, i + 1, Len(s))
    IN  From(StringsIndex(s, "?"))

\* The text of s before its first "?".
BeforeQuery(s) ==
    LET Upto(i) == IF i < 0 THEN s ELSE SubSeq(s, 1, i)
    IN  Upto(StringsIndex(s, "?"))

\* The params of the probes as a query string: sorted by key, escaped, the
\* variable u = "/sub" substituted.
EncodedParams(params) ==
    IF params = Map1("q", "1") THEN "q=1" ELSE "b=x+y&q=%2Fsub"

HasParams == arg.step.Request.Params # NilMap

HasLiteralQuery == Contains(applyVars(arg.step.Request.URL, arg.vars), "?")

\* C28, as stated: when the substituted URL holds a literal ?query and the
\* step has params, the request carries the literal query parameters and the
\* params entries.
C28_ParamsAddedToQuery ==
    URLBuilt /\ HasParams /\ HasLiteralQuery =>
        /\ Contains(FromQuery(res.out.req.URL), "a=1")
        /\ Contains(FromQuery(res.out.req.URL), EncodedParams(arg.step.Request.Params))

\* C28, amended: when the step has params, the substituted URL is cut at its
\* first "?" before anything else, so a literal query is dropped, and the
\* query string of the request is the params alone, each value substituted,
\* sorted by key and escaped; the rest of the URL is what the same URL gives
\* without its literal query.  Without params the URL keeps its literal query.
C28_ParamsReplaceQuery ==
    URLBuilt =>
        LET substituted == applyVars(arg.step.Request.URL, arg.vars)
            url == res.out.req.URL
        IN  /\ HasParams =>
                    /\ FromQuery(url) = "?" \o EncodedParams(arg.step.Request.Params)
                    /\ ~Contains(url, "a=1")
                    /\ BeforeQuery(url) = JoinBaseURL(BeforeQuery(substituted),
                                                      VarGet(arg.vars, "base_url"))
            /\ ~HasParams =>
                    /\ FromQuery(url) = FromQuery(substituted)
                    /\ url = JoinBaseURL(substituted, VarGet(arg.vars, "base_url"))

\* "/p?a=1" with the param q = 1 under base_url http://s: the request goes to
\* http://s/p?q=1, without a=1.
C28_Witness ==
    /\ URLBuilt
    /\ arg.step.Request.URL = "/p?a=1"
    /\ arg.step.Request.Params = Map1("q", "1")
    /\ arg.vars["base_url"] = "http://s"
    /\ res.out.req.URL = "http://s/p?q=1"

\* s without any of its trailing "/".
RECURSIVE NoTrailingSlash(_)
NoTrailingSlash(s) ==
    IF HasSuffix(s, "/") THEN NoTrailingSlash(SubSeq(s, 1, Len(s) - 1)) ELSE s

\* s without any of its leading "/".
RECURSIVE NoLeadingSlash(_)
NoLeadingSlash(s) ==
    IF HasPrefix(s, "/") THEN NoLeadingSlash(SubSeq(s, 2, Len(s))) ELSE s

\* An absolute URL names its scheme.
IsAbsolute(url) == HasPrefix(url, "http://") \/ HasPrefix(url, "https://")

\* base_url and the URL with exactly one "/" between them.
OneSlashJoin(base, url) == NoTrailingSlash(base) \o "/" \o NoLeadingSlash(url)

\* C29: a substituted URL that is not absolute is sent, when base_url is set,
\* as base_url and the URL with exactly one "/" between them, however many
\* slashes end base_url and begin the URL; an absolute URL is sent unchanged.
C29_JoinedWithOneSlash ==
    URLBuilt /\ ~HasParams =>
        LET substituted == applyVars(arg.step.Request.URL, arg.vars)
            base == VarGet(arg.vars, "base_url")
        IN  /\ IsAbsolute(substituted) => res.out.req.URL = substituted
            /\ ~IsAbsolute(substituted) /\ base # "" =>
                    res.out.req.URL = OneSlashJoin(base, substituted)

\* The same for the URLs that do not begin with "http": only doubled slashes
\* are left to break it.
C29_SlashesTrimmed ==
    URLBuilt /\ ~HasParams =>
        LET substituted == applyVars(arg.step.Request.URL, arg.vars)
            base == VarGet(arg.vars, "base_url")
        IN  ~HasPrefix(substituted, "http") /\ base # "" =>
                res.out.req.URL = OneSlashJoin(base, substituted)

\* The same for base_url and URLs with at most one slash at the joint: only a
\* relative URL that begins with "http" is left to break it.
C29_RelativeJoined ==
    URLBuilt /\ ~HasParams =>
        LET substituted == applyVars(arg.step.Request.URL, arg.vars)
            base == VarGet(arg.vars, "base_url")
        IN  /\ ~IsAbsolute(substituted)
            /\ base # ""
            /\ ~HasSuffix(base, "//")
            /\ ~HasPrefix(substituted, "//")
            => res.out.req.URL = OneSlashJoin(base, substituted)

\* With at most one slash on either side and a URL that does not begin with
\* "http", the join has exactly one "/"; a URL that begins with "http", or any
\* URL without base_url, is sent as it is.
C29_JoinOfSingleSlashes ==
    URLBuilt /\ ~HasParams =>
        LET substituted == applyVars(arg.step.Request.URL, arg.vars)
            base == VarGet(arg.vars, "base_url")
        IN  /\ HasPrefix(substituted, "http") \/ base = "" => res.out.req.URL = substituted
            /\ /\ ~HasPrefix(substituted, "http")
               /\ base # ""
               /\ ~HasSuffix(base, "//")
               /\ ~HasPrefix(substituted, "//")
               => res.out.req.URL = OneSlashJoin(base, substituted)

\* The lines the run command printed itself, after those of the documents.
MainLines ==
    LET IsMain(l) == l.src = MainSrc
        Own(ls) == [i \in 1..Len(ls) |-> ls[i].line]
    IN  Own(SelectSeq(stdout, IsMain))

AnyStepFailed == \E t \in Tasks : Len(FailedEnds(t)) > 0

AnyDocumentUnloadable == \E t \in Tasks : Finished(t) /\ ~DocLoaded(t)

AnyPathUnloadable == \E i \in 1..Len(paths) : paths[i] \in {"locked", "nowhere"}

\* The errors of the run: those of the documents, or the one RunPaths stopped
\* at before any document.
Aggregated == IF Len(errsMain) > 0 THEN errsMain ELSE <<ret.err.err>>

\* The number of step errors among the first n of list.
StepErrorsAmong(list, n) == Cardinality({i \in 1..n : IsStepError(list[i])})

\* C30, as stated: the command exits non-zero exactly when a step failed or
\* a document or a path could not be loaded; on success it prints one
\* confirmation line, on failure one line for each aggregated error and then
\* a summary that counts them.
C30_ExitAndOutput ==
    cmdRet.returned =>
        /\ ExitStatus(cmdRet.err) # 0 <=>
                AnyStepFailed \/ AnyDocumentUnloadable \/ AnyPathUnloadable
        /\ ExitStatus(cmdRet.err) = 0 => MainLines = <<"All steps were run successfully">>
        /\ ExitStatus(cmdRet.err) # 0 =>
                /\ Len(MainLines) = Len(Aggregated)
                /\ ErrorString(cmdRet.err)
                        = "workflow failed with " \o FormatInt(Len(Aggregated)) \o " errors"

\* C30, amended: the command exits non-zero exactly when RunPaths returned an
\* error, which is when a step failed, a document or a path could not be
\* loaded, or the paths hold no workflow file.  On success it prints the one
\* confirmation line.  When documents were run and errors were aggregated,
\* it prints for each of them, in order, "Failed step: <name>" for a step
\* error, followed when verbose by its description and its error, and
\* "Error: <message>" for any other, and returns "workflow failed with N
\* errors", N the number of aggregated errors.  When RunPaths stopped before
\* any document it prints no line and returns "run failed: <message>".
C30_RunCommand ==
    cmdRet.returned =>
        LET n == Len(errsMain)
            Pos(i) == i + (IF verbose THEN 2 * StepErrorsAmong(errsMain, i - 1) ELSE 0)
            NoFile == Len(files) = 0 /\ ~AnyPathUnloadable
        IN  /\ ExitStatus(cmdRet.err) # 0 <=> ~ret.err.nil
            /\ ~ret.err.nil <=>
                    AnyStepFailed \/ AnyDocumentUnloadable \/ AnyPathUnloadable \/ NoFile
            /\ ExitStatus(cmdRet.err) = 0 => MainLines = <<"All steps were run successfully">>
            /\ ExitStatus(cmdRet.err) # 0 /\ Len(files) > 0 =>
                    /\ n > 0
                    /\ Len(MainLines) = n + (IF verbose THEN 2 * StepErrorsAmong(errsMain, n) ELSE 0)
                    /\ \A i \in 1..n :
                            IF IsStepError(errsMain[i])
                            THEN /\ MainLines[Pos(i)] = "Failed step: " \o errsMain[i].Step
                                 /\ verbose =>
                                        /\ MainLines[Pos(i) + 1]
                                                = "Description: " \o errsMain[i].Description
                                        /\ MainLines[Pos(i) + 2]
                                                = "Error: " \o ErrorString(errsMain[i].Err)
                            ELSE MainLines[Pos(i)] = "Error: " \o ErrorString(errsMain[i])
                    /\ ErrorString(cmdRet.err) = "workflow failed with " \o FormatInt(n) \o " errors"
            /\ ExitStatus(cmdRet.err) # 0 /\ Len(files) = 0 =>
                    /\ MainLines = <<>>
                    /\ ErrorString(cmdRet.err) = "run failed: " \o ErrorString(ret.err.err)

\* A verbose run of a document with a failing step beside one that does not
\* parse: two errors, four lines, "workflow failed with 2 errors".
C30_Witness ==
    /\ cmdRet.returned
    /\ verbose
    /\ Len(errsMain) = 2
    /\ StepErrorsAmong(errsMain, 2) = 1
    /\ Len(MainLines) = 4
    /\ ErrorString(cmdRet.err) = "workflow failed with 2 errors"

\* The directory o holds no workflow file: no step failed and nothing failed to
\* load, yet the command exits with 1.
C30_NoFileFound ==
    /\ cmdRet.returned
    /\ paths = <<"o">>
    /\ ErrorString(cmdRet.err) = "run failed: no files found"

\* A run without failure prints the confirmation line alone.
C30_Success ==
    /\ cmdRet.returned
    /\ ExitStatus(cmdRet.err) = 0
    /\ Len(files) = 2
    /\ MainLines = <<"All steps were run successfully">>

(***************************************************************************)
(* The stages of a step, nested placeholders, the error list, base_url.    *)
(***************************************************************************)
\* The step of a stage probe has returned.
StageReturned == arg.kind = "stage" /\ res.done

\* What the stages of the probe's step meet, told from the probe alone.
RequestOk == arg.doErr = NoErr

StatusOk == arg.step.Expect.Status = NoStatus \/ arg.resp.StatusCode = arg.step.Expect.Status

HeadersOk ==
    \A i \in 1..Len(arg.step.Expect.Headers) :
        arg.resp.Header[arg.step.Expect.Headers[i].Name] = arg.step.Expect.Headers[i].Value

BodyOk ==
    /\ arg.resp.Body.readErr = NoErr
    /\ arg.resp.Body.raw = "" \/ arg.resp.Body.json.err = NoErr

\* The decoded body: nil when the body is empty.
StageBody == IF arg.resp.Body.raw = "" THEN JNil ELSE arg.resp.Body.json.val

MatchersOk ==
    \A i \in 1..Len(arg.step.Expect.JSONPathMatch) :
        LET Equal(r, m) == r.err = NoErr /\ Sprint(r.val) = Sprint(m.Value)
        IN  Equal(evalJSONPath(StageBody, arg.step.Expect.JSONPathMatch[i].Path),
                  arg.step.Expect.JSONPathMatch[i])

\* The captures of the probe's step that store a value: those before the
\* first that fails.
CaptureFails(i) == CaptureValue(arg.step.Capture[i], StageBody, arg.resp).err # NoErr

StoredCaptures ==
    {i \in 1..Len(arg.step.Capture) : \A j \in 1..i : ~CaptureFails(j)}

CapturesOk == Cardinality(StoredCaptures) = Len(arg.step.Capture)

\* The store after the first n captures of the probe's step.
RECURSIVE StoreWith(_)
StoreWith(n) ==
    IF n = 0 THEN ProbeStore
    ELSE VarSet(StoreWith(n - 1), arg.step.Capture[n].As,
                CaptureValue(arg.step.Capture[n], StageBody, arg.resp).val)

BeforeCapturesOk == RequestOk /\ StatusOk /\ HeadersOk /\ BodyOk /\ MatchersOk

\* The lines that come from the output template "out ${v}".
IsOutputLine(line) == HasPrefix(line, "out ")

OutputLinesOf(logged) == SelectSeq(logged, IsOutputLine)

\* C31: a step logs the line of its output template exactly when it has a
\* template and every stage before (request, status, headers, body, path
\* expectations, all captures) has passed; the line is then the last one
\* logged, substituted against the store as the captures of this step left
\* it.  A step that fails logs no output line.
C31_OutputAfterCaptures ==
    StageReturned =>
        LET passed == BeforeCapturesOk /\ CapturesOk
            template == arg.step.Output.print
        IN  /\ res.out.err = NoErr <=> passed
            /\ Len(OutputLinesOf(res.out.logs)) > 0 <=> passed /\ template # ""
            /\ passed /\ template # "" =>
                    /\ Len(OutputLinesOf(res.out.logs)) = 1
                    /\ res.out.logs[Len(res.out.logs)]
                            = "out " \o StoreWith(Len(arg.step.Capture))["v"]
            /\ res.out.err # NoErr => OutputLinesOf(res.out.logs) = <<>>

\* The step has captured v = "7" and printed "out 7", not "out abc".
C31_Witness ==
    /\ StageReturned
    /\ arg.step.Capture = <<Capture("id", "", "", "v")>>
    /\ arg.step.Output.print = "out ${v}"
    /\ ProbeStore["v"] = "abc"
    /\ res.out.err = NoErr
    /\ res.out.logs[Len(res.out.logs)] = "out 7"

\* The second capture has failed after the first stored v: no output line.
C31_FailedCaptureSilent ==
    /\ StageReturned
    /\ BeforeCapturesOk
    /\ Len(arg.step.Capture) = 2
    /\ res.out.err # NoErr
    /\ res.out.vars["v"] = "7"
    /\ arg.step.Output.print # ""
    /\ OutputLinesOf(res.out.logs) = <<>>

\* The stage a line of the verbose log comes from.
LineStage(line) ==
    CASE HasPrefix(line, "Received status: ") -> 1
      [] HasPrefix(line, "Asserting header ") -> 2
      [] HasPrefix(line, "Asserting ") -> 3
      [] HasPrefix(line, "Captured ") -> 4
      [] OTHER -> 5

\* The error of the probe's step begins with one of the texts.
FailedWith(texts) == \E text \in texts : HasPrefix(ErrorString(res.out.err), text)

\* C32: the stages of a step run in the order request, status, headers,
\* body, path expectations, captures, output, and the step ends with the
\* error of the first stage that fails; the lines it logged follow that
\* order.  A step that fails before its captures leaves the store as it was
\* and has stored nothing.
C32_StagesInOrder ==
    StageReturned =>
        /\ ~RequestOk => FailedWith({"request: "})
        /\ RequestOk /\ ~StatusOk => FailedWith({"expected status "})
        /\ RequestOk /\ StatusOk /\ ~HeadersOk => FailedWith({"expected header "})
        /\ RequestOk /\ StatusOk /\ HeadersOk /\ ~BodyOk =>
                FailedWith({"read body: ", "parse response json: "})
        /\ RequestOk /\ StatusOk /\ HeadersOk /\ BodyOk /\ ~MatchersOk => FailedWith({"jsonpath "})
        /\ BeforeCapturesOk /\ ~CapturesOk => FailedWith({"capture "})
        /\ BeforeCapturesOk /\ CapturesOk => res.out.err = NoErr
        /\ ~BeforeCapturesOk =>
                /\ res.out.err # NoErr
                /\ res.out.vars = ProbeStore
                /\ res.out.writes = <<>>
                /\ \A i \in 1..Len(res.out.logs) : LineStage(res.out.logs[i]) < 4
        /\ \A i, j \in 1..Len(res.out.logs) :
                i < j => LineStage(res.out.logs[i]) <= LineStage(res.out.logs[j])

\* A step with a capture has met a body that is no JSON after its status and
\* header passed: it has failed at the body and stored nothing.
C32_Witness ==
    /\ StageReturned
    /\ RequestOk /\ StatusOk /\ HeadersOk
    /\ Len(arg.step.Expect.Headers) = 1
    /\ arg.resp.Body.raw = "xx"
    /\ Len(arg.step.Capture) > 0
    /\ FailedWith({"parse response json: "})
    /\ res.out.vars = ProbeStore

\* The values the captures of step k of task t stored, as <<name, value>>, in
\* the order they were stored.
CapturedBy(t, k) ==
    LET OfStep(e) == e.ev = "capture" /\ e.step = k
        Pairs(events) == [i \in 1..Len(events) |-> events[i].info]
    IN  Pairs(SelectSeq(trace[t], OfStep))

\* Step k of task t has ended with an error.
StepFailed(t, k) == \E i \in EndsOf(t, k) : trace[t][i].info # NoErr

UsesCapturedId(r) == r.URL = "http://s/u/7"

\* C33: what a capture stores stays stored when a later capture of the same
\* step fails: the store of a document is its seed with every stored value
\* written over it in order, those of failed steps included.  A step whose
\* capture fails has stored the values of the captures before that one, in
\* order, and of none after it, and is recorded as failed.  In f.yaml the
\* third step stores i, fails at its second capture and never stores y; the
\* fourth step sends the stored i in its URL and prints it.
C33_CapturesNotAtomic ==
    \A t \in Tasks :
        /\ pc[t] \in {"step", "await", "send", "sent", "done"} /\ DocLoaded(t) =>
                /\ vars[StoreOf(t)] = StoreFromTrace(t)
                /\ \A k \in 1..Len(DocOf(t).Workflow) :
                        LET caps == DocOf(t).Workflow[k].Capture
                            stored == CapturedBy(t, k)
                        IN  /\ Len(stored) <= Len(caps)
                            /\ \A i \in 1..Len(stored) : stored[i][1] = caps[i].As
                            /\ StepFailed(t, k) => Len(stored) < Len(caps) \/ Len(caps) = 0
                            /\ EndsOf(t, k) # {} /\ ~StepFailed(t, k) => Len(stored) = Len(caps)
        /\ files[t] = "w/f.yaml" /\ Finished(t) =>
                /\ StepFailed(t, 3)
                /\ \E i \in 1..Len(errs[t]) : errs[t][i].Step = "no-source"
                /\ CapturedBy(t, 3) = << <<"i", "7">> >>
                /\ vars[StoreOf(t)]["i"] = "7"
                /\ DOMAIN vars[StoreOf(t)] = {"base_url", "i"}
                /\ SentRequest(t, 4, UsesCapturedId)
                /\ ~StepFailed(t, 4)
                /\ HasLine(t, "[F] i=7")

\* f.yaml has finished: its third step failed, its fourth used the i that
\* the third had stored before it failed.
C33_Witness ==
    \E t \in Tasks :
        /\ files[t] = "w/f.yaml"
        /\ pc[t] = "done"
        /\ StepFailed(t, 3)
        /\ SentRequest(t, 4, UsesCapturedId)

\* The request of the probe was answered with a body that io.ReadAll returns,
\* that is not empty and that json.Unmarshal rejects.
BodyIsNoJSON ==
    /\ RequestOk
    /\ arg.resp.Body.readErr = NoErr
    /\ arg.resp.Body.raw # ""
    /\ arg.resp.Body.json.err # NoErr

\* C34: a step whose response body is not empty and is no JSON fails, whether
\* or not it declares a path expectation or a json_path capture.  The error is
\* the parse error, "parse response json: ...", when the status and the header
\* expectations have passed; a status mismatch, and after it a header
\* mismatch, on the same response is returned instead.
C34_UnparsableBodyFails ==
    StageReturned /\ BodyIsNoJSON =>
        /\ res.out.err # NoErr
        /\ StatusOk /\ HeadersOk =>
                ErrorString(res.out.err)
                    = "parse response json: " \o ErrorString(arg.resp.Body.json.err)
        /\ ~StatusOk =>
                ErrorString(res.out.err)
                    = "expected status " \o FormatInt(arg.step.Expect.Status) \o ", got "
                        \o FormatInt(arg.resp.StatusCode)
        /\ StatusOk /\ ~HeadersOk => FailedWith({"expected header "})
        /\ res.out.vars = ProbeStore
        /\ OutputLinesOf(res.out.logs) = <<>>

\* A step that expects nothing of the body and captures nothing has failed
\* on a body that is no JSON.
C34_Witness ==
    /\ StageReturned
    /\ BodyIsNoJSON
    /\ arg.step.Expect = StepExpect(NoStatus, <<>>, <<>>)
    /\ arg.step.Capture = <<>>
    /\ ErrorString(res.out.err)
            = "parse response json: invalid character 'x' looking for beginning of value"

\* The same body under a status that is not the expected one: the status
\* error is the one returned.
C34_StatusFirst ==
    /\ StageReturned
    /\ BodyIsNoJSON
    /\ ~StatusOk
    /\ ErrorString(res.out.err) = "expected status 200, got 500"

\* The probe's step has one path expectation, or one json_path capture, on
\* the key "missing", which the body {n, s, t, b} does not hold.
MissingKeyExpected ==
    /\ ProbeReturned
    /\ arg.resp = ValuesResponse
    /\ Len(arg.step.Expect.JSONPathMatch) = 1
    /\ arg.step.Expect.JSONPathMatch[1].Path = "missing"

MissingKeyCaptured ==
    /\ ProbeReturned
    /\ arg.resp = ValuesResponse
    /\ Len(arg.step.Capture) = 1
    /\ arg.step.Capture[1].JSONPath = "missing"

\* C35: a named segment whose key the current object lacks does not fail but
\* yields nil: a path that ends at such a segment returns nil without error
\* (a segment after it fails with "expected object", an index on it with
\* "expected array").  An expectation on such a path passes exactly when the
\* declared value, substituted, is "<nil>", and otherwise fails as a mismatch
\* that names the nil; a json_path capture on it passes and stores "<nil>".
C35_MissingKeyIsNull ==
    /\ PathEvaluated /\ arg.obj.t = "object" =>
            /\ arg.path \in {"missing", "$.missing"} /\ "missing" \notin DOMAIN arg.obj.v =>
                    res.out = Ret(JNil, NoErr)
            /\ arg.path = "items[0].zz" /\ "items" \in DOMAIN arg.obj.v =>
                    res.out = Ret(JNil, NoErr)
            /\ arg.path = "missing.x" =>
                    ErrorString(res.out.err) = "expected object for segment x"
            /\ arg.path = "missing[0]" =>
                    ErrorString(res.out.err) = "expected array for segment missing[0]"
    /\ MissingKeyExpected =>
            LET expected == applyVars(Sprint(arg.step.Expect.JSONPathMatch[1].Value), ProbeStore)
            IN  /\ res.out.err = NoErr <=> expected = "<nil>"
                /\ expected # "<nil>" =>
                        ErrorString(res.out.err)
                            = "jsonpath missing expected \"" \o expected \o "\", got %!q(<nil>)"
    /\ MissingKeyCaptured =>
            /\ res.out.err = NoErr
            /\ res.out.vars = VarSet(ProbeStore, "a", "<nil>")
            /\ res.out.writes = << <<"a", "<nil>">> >>

\* A capture of the missing key has stored "<nil>" under a.
C35_Witness ==
    /\ MissingKeyCaptured
    /\ res.out.err = NoErr
    /\ res.out.vars["a"] = "<nil>"

\* An expectation of "<nil>" on the missing key has passed.
C35_ExpectationOfNil ==
    /\ MissingKeyExpected
    /\ arg.step.Expect.JSONPathMatch[1].Value = JStr("<nil>")
    /\ res.out.err = NoErr

\* The path "missing" has returned nil from an object.
C35_PathReturnsNil ==
    /\ PathEvaluated
    /\ arg.obj.t = "object"
    /\ arg.path = "missing"
    /\ res.out = Ret(JNil, NoErr)

\* The store whose value for a is the placeholder of b.
NestedStore == Map2("a", "${b}", "b", "2")

\* C36: substitution is one pass: the text put in for a placeholder is not
\* scanned again.  An input that is one placeholder of a key of the store
\* returns the value of that key as it is; with a = "${b}" and b = "2",
\* "${a}" gives "${b}", not "2".  So a value captured from a response that
\* is written like a placeholder is stored and printed as it is and reads no
\* other variable.
C36_SinglePass ==
    /\ VarsApplied =>
            /\ \A k \in DOMAIN arg.vars :
                    arg.input = "${" \o k \o "}" => res.out = arg.vars[k]
            /\ arg.vars = NestedStore /\ arg.input = "${a}" => res.out = "${b}"
            /\ arg.vars = NestedStore /\ arg.input = "x${a}y${b}z" => res.out = "x${b}y2z"
            /\ arg.vars = NestedStore /\ arg.input = "${a}${a}" => res.out = "${b}${b}"
    /\ /\ StageReturned
       /\ arg.step.Capture = <<Capture("", "X-Tpl", "", "v")>>
       /\ BeforeCapturesOk
       => /\ res.out.err = NoErr
          /\ res.out.vars["v"] = "${base_url}"
          /\ res.out.vars["base_url"] = "http://s"
          /\ arg.step.Output.print = "out ${v}" =>
                res.out.logs[Len(res.out.logs)] = "out ${base_url}"

\* "${a}" under a = "${b}", b = "2" has returned "${b}".
C36_Witness ==
    /\ VarsApplied
    /\ arg.vars = NestedStore
    /\ arg.input = "${a}"
    /\ res.out = "${b}"

\* The header value "${base_url}" was captured as v and printed as it is.
C36_CapturedPlaceholder ==
    /\ StageReturned
    /\ arg.step.Capture = <<Capture("", "X-Tpl", "", "v")>>
    /\ res.out.err = NoErr
    /\ arg.step.Output.print = "out ${v}"
    /\ res.out.logs[Len(res.out.logs)] = "out ${base_url}"

\* The place of task t in the order the results were consumed.
ConsumedAt(t) == CHOOSE i \in 1..Len(consumed) : consumed[i] = t

\* The number of errors of the documents consumed before task t.
ErrorsBefore(t) == Len(FlattenErrs(SubSeq(consumed, 1, ConsumedAt(t) - 1)))

\* The index in its document of the step a step error names.
StepIndexOf(t, e) ==
    CHOOSE k \in 1..Len(DocOf(t).Workflow) : DocOf(t).Workflow[k].Step = e.Step

\* C37: in the list RunPaths returns, the errors of each document stand
\* together as one block, in the order of the document's steps, whatever the
\* interleaving of the tasks; the blocks follow each other in the order the
\* results were consumed.
C37_ErrorBlocks ==
    ret.returned /\ Len(files) > 0 =>
        /\ \A t \in Tasks :
                /\ t \in ConsumedSet
                /\ SubSeq(ret.err.errs, ErrorsBefore(t) + 1, ErrorsBefore(t) + Len(errs[t])) = errs[t]
                /\ DocLoaded(t) =>
                        /\ \A i \in 1..Len(errs[t]) : errs[t][i].File = files[t]
                        /\ \A i, j \in 1..Len(errs[t]) :
                                i < j => StepIndexOf(t, errs[t][i]) < StepIndexOf(t, errs[t][j])
        /\ Len(files) = 2 /\ files[1] # files[2] /\ DocLoaded(1) /\ DocLoaded(2) =>
                \A i, j, k \in 1..Len(ret.err.errs) :
                    i < j /\ j < k /\ ret.err.errs[i].File = ret.err.errs[k].File
                        => ret.err.errs[j].File = ret.err.errs[i].File

\* c.yaml and f.yaml have both failed more than once and the result of the
\* second file was consumed first: its three errors come first, in step
\* order, then the two of c.yaml.
C37_Witness ==
    /\ ret.returned
    /\ files = <<"w/c.yaml", "w/f.yaml">>
    /\ consumed = <<2, 1>>
    /\ Len(ret.err.errs) = 5
    /\ ret.err.errs[1].Step = "no-host"
    /\ ret.err.errs[3].Step = "no-source"
    /\ ret.err.errs[4].Step = "post-file"

\* The same run with the results consumed in the other order.
C37_OtherOrder ==
    /\ ret.returned
    /\ files = <<"w/c.yaml", "w/f.yaml">>
    /\ consumed = <<1, 2>>
    /\ ret.err.errs[1].Step = "post-file"
    /\ ret.err.errs[3].Step = "no-host"

\* The captures into base_url among the first n events of task t.
BaseCaptures(t, n) ==
    {j \in 1..n : trace[t][j].ev = "capture" /\ trace[t][j].info[1] = "base_url"}

\* The base URL in force after the first n events of task t: what the last
\* capture into base_url stored, or else what the document configures.
BaseURLAt(t, n) ==
    IF BaseCaptures(t, n) = {} THEN DocOf(t).Config.BaseURL
    ELSE trace[t][CHOOSE j \in BaseCaptures(t, n) : \A o \in BaseCaptures(t, n) : o <= j].info[2]

\* The store after the first n events of task t, with base_url as in force.
StoreAt(t, n) ==
    [Replay(InitialVars(DocOf(t)), SubSeq(trace[t], 1, n)) EXCEPT !["base_url"] = BaseURLAt(t, n)]

IsConfiguredSeven(r) == r.URL = "http://s/7"

\* C38: a request is built against the base_url entry of the store as it is
\* when the step starts: once a capture has stored a value under base_url,
\* every later request of the document has its relative URL joined to that
\* value and ${base_url} replaced by it, and the outputs print it; until
\* then the configured base_url is used.  In g.yaml step 1 captures
\* http://s/u, and steps 2 and 3 ask for http://s/u/7, never http://s/7.
C38_CapturedBaseURL ==
    \A t \in Tasks :
        /\ DocLoaded(t) =>
                \A i \in 1..Len(trace[t]) :
                    trace[t][i].ev = "request" =>
                        LET step == DocOf(t).Workflow[trace[t][i].step]
                            base == BaseURLAt(t, i - 1)
                            url == CutQuery(applyVars(step.Request.URL, StoreAt(t, i - 1)),
                                            step.Request.Params)
                        IN  /\ trace[t][i].info = RequestUnder(t, trace[t][i].step, StoreAt(t, i - 1))
                            /\ ~HasPrefix(url, "http") /\ base # "" =>
                                    HasPrefix(trace[t][i].info.URL, TrimSuffix(base, "/") \o "/")
        /\ pc[t] \in {"step", "await", "send", "sent", "done"} /\ DocLoaded(t) =>
                vars[StoreOf(t)]["base_url"] = BaseURLAt(t, Len(trace[t]))
        /\ files[t] = "w/g.yaml" /\ Finished(t) =>
                /\ CapturedBy(t, 1) = << <<"base_url", "http://s/u">> >>
                /\ SentRequest(t, 1, LAMBDA r : r.URL = "http://s/home")
                /\ SentRequest(t, 2, UsesCapturedId)
                /\ SentRequest(t, 3, UsesCapturedId)
                /\ ~SentRequest(t, 2, IsConfiguredSeven)
                /\ HasLine(t, "[G] at http://s/u")
                /\ HasLine(t, "[G] from http://s/u")
                /\ errs[t] = <<>>

\* g.yaml has run to its end: base_url was captured by the first step and the
\* two later steps were sent to the captured address.
C38_Witness ==
    \E t \in Tasks :
        /\ files[t] = "w/g.yaml"
        /\ Finished(t)
        /\ DocOf(t).Config.BaseURL = "http://s"
        /\ vars[StoreOf(t)]["base_url"] = "http://s/u"
        /\ SentRequest(t, 2, UsesCapturedId)
        /\ SentRequest(t, 3, UsesCapturedId)

\* The steps FairSpec is fair to are the steps of the tasks, no more, no less.
RunsIsTask == [][\A t \in 1..MaxFiles : Runs(t) <=> (t \in Tasks /\ Task(t))]_vs

====
